---------------------------- MODULE Spec2Model ----------------------------
(***************************************************************************)
(* Exergy balance of TESPy components (HeatExchanger, Source) and the      *)
(* network level ExergyAnalysis (constructor, analyse, evaluate_busses).   *)
(*                                                                         *)
(* The specifications of the module:                                       *)
(*   Spec       HeatExchanger.exergy_balance on one heat exchanger         *)
(*   SpecSource Source.exergy_balance on one source                        *)
(*   SpecEA     ExergyAnalysis.__init__ / analyse / evaluate_busses        *)
(*   SpecTD     HeatExchanger.calculate_td_log                             *)
(*   SpecPar    HeatExchanger.calc_parameters and the equations it serves  *)
(*   SpecJac    the derivative routines of HeatExchanger                   *)
(*   SpecBus    HeatExchanger.bus_deriv on the Jacobian of one bus         *)
(***************************************************************************)
EXTENDS Integers, Sequences, FiniteSets, TLC

VARIABLES
    hx_T,        \* c.T.val_SI of the four connections of the heat exchanger
    hx_Ex_therm, \* c.Ex_therm of the four connections
    hx_Ex_mech,  \* c.Ex_mech of the four connections
    hx_T0,       \* the T0 passed to the last exergy_balance call (0: none yet)
    hx,          \* the heat exchanger's result fields
    so_outl,     \* the source's outlet connection self.outl[0]
    so_T0,       \* the T0 passed to the last Source.exergy_balance call
    so,          \* the source's result fields
    ea_pc,       \* ExergyAnalysis: "new", "ready", "loop", "done" or "raised"
    ea_call,     \* the last call on the ExergyAnalysis and its arguments
    ea_exc,      \* the exception the last call raised ("none" if it returned)
    ea_log,      \* the messages the last call passed to logging.error
    ean,         \* the attributes __init__ stores on the ExergyAnalysis
    cp,          \* the component the loop of analyse is at
    component_data, \* self.component_data: one row per component
    bus_data,       \* self.bus_data: one row per component on a bus
    network_data,   \* self.network_data: E_F, E_P, E_D, E_L
    residual,       \* the residual of the closure check (-1: not computed)
    group_data,     \* self.group_data: per group, a series of values by label
    group_overview, \* self.group_overview: one row per group of components
    ea_nw,       \* self.nw.comps['object'], as far as analyse iterated it
    ea_runs,     \* the number of analyse calls on the ExergyAnalysis
    ea_first,    \* the data the first analyse call left behind
    td_T,        \* c.calc_T() of the four connections, in units of 0.01 K
    td,          \* the locals and the result of the last calculate_td_log
    hx_mh,       \* inl[0].m.val_SI, inl[0].h.val_SI and outl[0].h.val_SI
    hx_par,      \* the parameters Q, ttd_u, ttd_l, td_log, kA of the component
    jac_in,      \* is_var, J_col and values of m, p, h; the increment filter
    jacobian,    \* self.jacobian: the entry at each row and column
    jac_call,    \* the last derivative routine called, its row k, its number
    bus_jacobian,   \* bus.jacobian: the columns present and their values
    bus_reported,   \* per column, the derivatives the components reported
    bus_calls,      \* the number of bus_deriv calls on the bus
    cost_Ex,     \* c.Ex_therm, c.Ex_mech, c.Ex_chemical of the connections
    cost,        \* the rows the last aux_eqs or dissipative_balance wrote
    char_kA,     \* self.kA.val and self.kA.design of the heat exchanger
    char         \* the design/offdesign stage and the last kA_char_func

hxvars == <<hx_T, hx_Ex_therm, hx_Ex_mech, hx_T0, hx>>
sovars == <<so_outl, so_T0, so>>
nwvars == <<ea_nw, ea_runs, ea_first>>
eavars == <<ea_pc, ea_call, ea_exc, ea_log, ean, cp, component_data, bus_data,
            network_data, residual, group_data, group_overview, nwvars>>
tdvars == <<td_T, td>>
parvars == <<hx_mh, hx_par>>
jacvars == <<jac_in, jacobian, jac_call>>
busvars == <<bus_jacobian, bus_reported, bus_calls>>
costvars == <<cost_Ex, cost>>
charvars == <<char_kA, char>>

(***************************************************************************)
(* Bounds.                                                                 *)
(***************************************************************************)
\* temperatures (connections and ambient) range over 1..MaxT
MaxT == 3
\* the exergy values of the four connections of the heat exchanger sum to at
\* most MaxEx (so every single term of E_P and E_F can be told apart)
MaxEx == 1
\* each exergy value of the source's outlet ranges over 0..MaxExOut
MaxExOut == 2
\* analyse loops over a network of at most MaxComps components
MaxComps == 2
\* the exergy destruction of a component ranges over 0..MaxED
MaxED == 3
\* the temperatures calc_T() returns range over 0..MaxTd (units of 0.01 K)
MaxTd == 4
\* the mass flow and the enthalpies of the hot side range over 0..MaxMH
MaxMH == 1
\* at most MaxCalls derivative routines are called on one Jacobian
MaxCalls == 1
\* at most MaxBusCalls components contribute to the Jacobian of the bus
MaxBusCalls == 3
\* a dissipative component has at most MaxServing serving components
MaxServing == 2
\* at most MaxCostCalls calls write rows into one cost matrix
MaxCostCalls == 1
\* kA.val ranges over 1..MaxKA
MaxKA == 3
\* the characteristic line values are the fractions n/d, n and d in 1..MaxChar
MaxChar == 2
\* at most MaxOffdesign offdesign calculations follow the design calculation
MaxOffdesign == 2
\* analyse is called at most MaxRuns times on one ExergyAnalysis
MaxRuns == 2
\* a network that is analysed more than once has at most MaxNet components
MaxNet == 1

Temps == 1..MaxT

(***************************************************************************)
(* Floats: a number, numpy's nan, or an attribute that was never assigned. *)
(***************************************************************************)
Num(n) == [t |-> "num", v |-> n]
NaN == [t |-> "nan", v |-> 0]
Unset == [t |-> "unset", v |-> 0]
isnan(x) == x.t = "nan"
\* a - b and a + b in IEEE arithmetic: nan if either operand is nan
Sub(a, b) == IF isnan(a) \/ isnan(b) THEN NaN ELSE Num(a.v - b.v)
Add(a, b) == IF isnan(a) \/ isnan(b) THEN NaN ELSE Num(a.v + b.v)

(***************************************************************************)
(* HeatExchanger.exergy_balance                                            *)
(***************************************************************************)
\* self.inl[0], self.outl[0] (hot side), self.inl[1], self.outl[1] (cold side)
Conns == {"in1", "out1", "in2", "out2"}

\* the exergy state of the four connections: thermal and mechanical exergy
ExStates ==
    LET Zero == [c \in Conns |-> 0]
        Unit(c) == [Zero EXCEPT ![c] = 1]
        RECURSIVE Vecs(_)
        \* all vectors over Conns x {therm, mech} with sum <= n
        Vecs(n) ==
            IF n = 0 THEN {[th |-> Zero, me |-> Zero]}
            ELSE LET P == Vecs(n - 1)
                 IN P \cup {[th |-> [c \in Conns |-> p.th[c] + Unit(d)[c]],
                             me |-> p.me] : p \in P, d \in Conns}
                      \cup {[th |-> p.th,
                             me |-> [c \in Conns |-> p.me[c] + Unit(d)[c]]]
                            : p \in P, d \in Conns}
    IN Vecs(MaxEx)

\* c.Ex_physical: the physical exergy is the sum of its thermal and
\* mechanical part
Ex_physical(th, me, c) == th[c] + me[c]

\* line 1006: all([c.T.val_SI > T0 for c in self.inl + self.outl])
Cond1_ge(T, T0) == \A c \in Conns : T[c] >= T0
Cond1(T, T0) == \A c \in Conns : T[c] > T0
\* line 1010: all([c.T.val_SI <= T0 for c in self.inl + self.outl])
Cond2(T, T0) == \A c \in Conns : T[c] <= T0
\* lines 1014-1015
Cond3(T, T0) ==
    T["in1"] > T0 /\ T["out2"] > T0 /\ T["out1"] <= T0 /\ T["in2"] <= T0
\* lines 1019-1020
Cond4(T, T0) ==
    T["in1"] > T0 /\ T["in2"] <= T0 /\ T["out1"] <= T0 /\ T["out2"] <= T0
\* lines 1024-1025
Cond5_out2(T, T0) ==
    T["in1"] > T0 /\ T["out1"] > T0 /\ T["in2"] <= T0 /\ T["out2"] > T0
Cond5(T, T0) ==
    T["in1"] > T0 /\ T["out1"] > T0 /\ T["in2"] <= T0 /\ T["out2"] <= T0

\* the branch of the if/elif/else ladder that runs (1..5, 6 for the else)
Branch(T, T0) ==
    IF Cond1(T, T0) THEN 1
    ELSE IF Cond2(T, T0) THEN 2
    ELSE IF Cond3(T, T0) THEN 3
    ELSE IF Cond4(T, T0) THEN 4
    ELSE IF Cond5(T, T0) THEN 5
    ELSE 6

E_P_of_hot(b, th, me) ==
    CASE b = 1 -> Num(th["out2"] - th["in2"])
      [] b = 2 -> Num(th["out1"] - th["in1"])
      [] b = 5 -> NaN
      [] OTHER -> Num(th["out1"])
\* self.E_P as assigned in branch b
E_P_of(b, th, me) ==
    CASE b = 1 -> Num(th["out2"] - th["in2"])
      [] b = 2 -> Num(th["out1"] - th["in1"])
      [] b = 3 -> Num(th["out1"] + th["out2"])
      [] b = 4 -> Num(th["out1"])
      [] b = 5 -> NaN
      [] OTHER -> Num(th["out2"])

\* self.E_F as assigned in branch b
E_F_of_noswap(b, th, me) ==
    LET PH(c) == Ex_physical(th, me, c)
    IN CASE b \in {1, 2} -> Num(PH("in1") - PH("out1") + (me["in2"] - me["out2"]))
         [] b = 3 -> Num(PH("in1") + PH("in2") - (me["out1"] + me["out2"]))
         [] b = 4 -> Num(PH("in1") + PH("in2") - (PH("out2") + me["out1"]))
         [] b = 5 -> Num(PH("in1") - PH("out1") + (PH("in2") - PH("out2")))
         [] OTHER -> Num(PH("in1") - PH("out1") + (PH("in2") - me["out2"]))
E_F_of(b, th, me) ==
    LET PH(c) == Ex_physical(th, me, c)
    IN CASE b = 1 -> Num(PH("in1") - PH("out1") + (me["in2"] - me["out2"]))
         [] b = 2 -> Num(PH("in2") - PH("out2") + (me["in1"] - me["out1"]))
         [] b = 3 -> Num(PH("in1") + PH("in2") - (me["out1"] + me["out2"]))
         [] b = 4 -> Num(PH("in1") + PH("in2") - (PH("out2") + me["out1"]))
         [] b = 5 -> Num(PH("in1") - PH("out1") + (PH("in2") - PH("out2")))
         [] OTHER -> Num(PH("in1") - PH("out1") + (PH("in2") - me["out2"]))

\* lines 1036-1039: E_D = E_F if E_P is nan, else E_F - E_P
E_D_of_nocheck(E_P, E_F) == Sub(E_F, E_P)
E_D_of(E_P, E_F) == IF isnan(E_P) THEN E_F ELSE Sub(E_F, E_P)

\* line 1035
HX_E_bus == [chemical |-> NaN, physical |-> NaN, massless |-> NaN]

\* exergy_balance(T0) on the heat exchanger; dissipative.val is written in
\* branch 5 only and stays as it was in every other branch
HX_exergy_balance(T0) ==
    LET b == Branch(hx_T, T0)
        EP == E_P_of(b, hx_Ex_therm, hx_Ex_mech)
        EF == E_F_of(b, hx_Ex_therm, hx_Ex_mech)
    IN /\ hx_T0' = T0
       /\ hx' = [branch |-> b,
                 E_P |-> EP,
                 E_F |-> EF,
                 E_D |-> E_D_of(EP, EF),
                 E_bus |-> HX_E_bus,
                 dissipative |-> IF b = 5 THEN TRUE ELSE hx.dissipative]
       /\ UNCHANGED <<hx_T, hx_Ex_therm, hx_Ex_mech>>

HXInit ==
    /\ hx_T \in [Conns -> Temps]
    /\ \E e \in ExStates : hx_Ex_therm = e.th /\ hx_Ex_mech = e.me
    /\ hx_T0 = 0
    /\ hx = [branch |-> 0, E_P |-> Unset, E_F |-> Unset, E_D |-> Unset,
             E_bus |-> [chemical |-> Unset, physical |-> Unset,
                        massless |-> Unset],
             dissipative |-> FALSE]

HXIdle ==
    /\ hx_T = [c \in Conns |-> 1]
    /\ hx_Ex_therm = [c \in Conns |-> 0]
    /\ hx_Ex_mech = [c \in Conns |-> 0]
    /\ hx_T0 = 0
    /\ hx = [branch |-> 0, E_P |-> Unset, E_F |-> Unset, E_D |-> Unset,
             E_bus |-> [chemical |-> Unset, physical |-> Unset,
                        massless |-> Unset],
             dissipative |-> FALSE]

\* exergoeconomic_balance(T0), lines 1045-1069: the branch that assigns C_P
\* and C_F, numbered as the branch of exergy_balance with the same product
\* and fuel definition
exergoeconomic_branch(dissipative, T, T0) ==
    IF dissipative THEN 5
    ELSE IF Cond1(T, T0) THEN 1
    ELSE IF Cond2(T, T0) THEN 2
    ELSE IF Cond3(T, T0) THEN 3
    ELSE IF Cond4(T, T0) THEN 4
    ELSE 6

\* lines 1329-1330 of aux_eqs: the pattern of the sixth assignment
AuxCond6(T, T0) ==
    T["in1"] > T0 /\ T["in2"] <= T0 /\ T["out1"] > T0 /\ T["out2"] > T0

\* aux_eqs(..., T0), lines 1163-1377: the branch that writes the rows; the
\* branch of line 1329 and the final else write the same rows (6), the
\* branch of line 1371 is the dissipative one (5)
aux_eqs_branch(T, T0) ==
    IF Cond1(T, T0) THEN 1
    ELSE IF Cond2(T, T0) THEN 2
    ELSE IF Cond3(T, T0) THEN 3
    ELSE IF Cond4(T, T0) THEN 4
    ELSE IF AuxCond6(T, T0) THEN 6
    ELSE IF Cond5(T, T0) THEN 5
    ELSE 6

(***************************************************************************)
(* HeatExchanger.calculate_td_log                                          *)
(***************************************************************************)
\* lines 390 and 396: the nudges 0.01 K and 0.02 K, in units of 0.01 K
nudge_u == 1
nudge_l == 2

\* lines 389-396: the temperature manipulation for convergence stability
Safeguards_upper_only(T) ==
    LET a == IF T.in1 <= T.out2 THEN [T EXCEPT !.in1 = T.out2 + nudge_u]
             ELSE T
    IN a
Safeguards(T) ==
    LET a == IF T.in1 <= T.out2 THEN [T EXCEPT !.in1 = T.out2 + nudge_u]
             ELSE T
        b == IF a.in1 <= a.out2 THEN [a EXCEPT !.out2 = a.in1 - nudge_u]
             ELSE a
        c == IF b.in1 <= b.out2 THEN [b EXCEPT !.out1 = b.in2 + nudge_l]
             ELSE b
        d == IF c.out1 <= c.in2 THEN [c EXCEPT !.in2 = c.out1 - nudge_l]
             ELSE c
    IN d

\* what np.log(l / u) meets: a division by zero, a ratio that is not
\* positive, or a positive ratio
LogArg(l, u) ==
    IF u = 0 THEN "div0" ELSE IF l * u <= 0 THEN "nonpositive" ELSE "ok"

\* the value (l - u) / ln(l / u), kept as the expression it is
LogMean(l, u) == [form |-> "logmean", v |-> 0, l |-> l, u |-> u]
\* a plain number v
Value(v) == [form |-> "value", v |-> v, l |-> 0, u |-> 0]
NoValue == [form |-> "none", v |-> 0, l |-> 0, u |-> 0]

\* lines 401-404: td_log and whether the logarithm was evaluated
TdLog_always(ttd_u, ttd_l) ==
    [td_log |-> LogMean(ttd_l, ttd_u), log_arg |-> LogArg(ttd_l, ttd_u)]
TdLog(ttd_u, ttd_l) ==
    IF ttd_u = ttd_l
    THEN [td_log |-> Value(ttd_l), log_arg |-> "none"]
    ELSE [td_log |-> LogMean(ttd_l, ttd_u), log_arg |-> LogArg(ttd_l, ttd_u)]

\* lines 384-404: the locals and the result for the temperatures Tc
td_log_locals(Tc) ==
    LET T == Safeguards(Tc)
        ttd_u == T.in1 - T.out2
        ttd_l == T.out1 - T.in2
        r == TdLog(ttd_u, ttd_l)
    IN [called |-> TRUE, T |-> T, ttd_u |-> ttd_u, ttd_l |-> ttd_l,
        td_log |-> r.td_log, log_arg |-> r.log_arg]

\* calculate_td_log(), lines 377-406
calculate_td_log ==
    /\ td' = td_log_locals(td_T)
    /\ UNCHANGED td_T

TdNotCalled ==
    [called |-> FALSE, T |-> [c \in Conns |-> 0], ttd_u |-> 0, ttd_l |-> 0,
     td_log |-> NoValue, log_arg |-> "none"]

TDInit ==
    /\ td_T \in [Conns -> 0..MaxTd]
    /\ td = TdNotCalled

TDIdle ==
    /\ td_T = [c \in Conns |-> 0]
    /\ td = TdNotCalled

(***************************************************************************)
(* HeatExchanger.calc_parameters and the equations of Q, ttd_u, ttd_l, kA  *)
(* on a solved state, where c.T.val_SI is what c.calc_T() returns          *)
(***************************************************************************)
NaNValue == [form |-> "nan", v |-> 0, l |-> 0, u |-> 0]

\* lines 841-846: td_log of calc_parameters
ParTdLog(ttd_u, ttd_l) ==
    IF ttd_u < 0 \/ ttd_l < 0
    THEN [td_log |-> NaNValue, log_arg |-> "none"]
    ELSE IF ttd_l = ttd_u
    THEN [td_log |-> Value(ttd_l), log_arg |-> "none"]
    ELSE [td_log |-> LogMean(ttd_l, ttd_u), log_arg |-> LogArg(ttd_l, ttd_u)]

\* line 847: kA = -Q / td_log, kept as numerator and denominator
kA_of_plusQ(Q, td_log) == [num |-> Q, den |-> td_log]
kA_of(Q, td_log) == [num |-> -Q, den |-> td_log]

\* kA * t: the numerator when t is the denominator of kA; any other product
\* is kept as "other"
Times(kA, t) ==
    IF kA.den = t /\ t.form \in {"value", "logmean"} /\ t # Value(0)
    THEN Value(kA.num)
    ELSE [form |-> "other", v |-> 0, l |-> 0, u |-> 0]

\* x + y for a number x and a value y
Plus(x, y) == IF y.form = "value" THEN Value(x + y.v) ELSE y

\* calc_parameters(), lines 823-825 and 840-847
calc_parameters ==
    LET Q == hx_mh.m * (hx_mh.h_o - hx_mh.h_i)
        ttd_u == td_T.in1 - td_T.out2
        ttd_l == td_T.out1 - td_T.in2
        r == ParTdLog(ttd_u, ttd_l)
    IN /\ hx_par' = [called |-> TRUE, Q |-> Q, ttd_u |-> ttd_u,
                     ttd_l |-> ttd_l, td_log |-> r.td_log,
                     log_arg |-> r.log_arg, kA |-> kA_of(Q, r.td_log)]
       /\ UNCHANGED <<hx_mh, td_T, td>>

\* energy_balance_hot_func(), lines 333-335
energy_balance_hot_func == hx_mh.m * (hx_mh.h_o - hx_mh.h_i) - hx_par.Q

\* ttd_u_func(), lines 582-586
ttd_u_func == hx_par.ttd_u - td_T.in1 + td_T.out2

\* ttd_l_func(), lines 637-641
ttd_l_func == hx_par.ttd_l - td_T.out1 + td_T.in2

\* kA_func(), lines 425-429
kA_func ==
    Plus(hx_mh.m * (hx_mh.h_o - hx_mh.h_i),
         Times(hx_par.kA, td_log_locals(td_T).td_log))

ParNotCalled ==
    [called |-> FALSE, Q |-> 0, ttd_u |-> 0, ttd_l |-> 0, td_log |-> NoValue,
     log_arg |-> "none", kA |-> [num |-> 0, den |-> NoValue]]

ParInit ==
    /\ hx_mh \in [m : 0..MaxMH, h_i : 0..MaxMH, h_o : 0..MaxMH]
    /\ td_T \in [Conns -> 0..MaxTd]
    /\ td = TdNotCalled
    /\ hx_par = ParNotCalled

ParIdle ==
    /\ hx_mh = [m |-> 0, h_i |-> 0, h_o |-> 0]
    /\ hx_par = ParNotCalled

(***************************************************************************)
(* The derivative routines of HeatExchanger                                *)
(***************************************************************************)
Inlets == {"in1", "in2"}
\* the variables of the connections: mass flow, pressure and enthalpy
Quantities ==
    {<<c, "m">> : c \in Inlets} \cup {<<c, "p">> : c \in Conns}
        \cup {<<c, "h">> : c \in Conns}
\* the rows of the Jacobian the equations of the component are given
Rows == {0, 1}

Routines ==
    {"energy_balance_deriv", "energy_balance_hot_deriv", "kA_deriv",
     "kA_char_deriv", "ttd_u_deriv", "ttd_l_deriv"}

\* the routines that pass increment_filter on to is_variable
\* (lines 311-317, 618-621, 673-676); the others call is_variable(var)
PassesFilter_all(routine) == TRUE
PassesFilter(routine) ==
    routine \in {"energy_balance_deriv", "ttd_u_deriv", "ttd_l_deriv"}

\* Component.is_variable(var, increment_filter): the variable is free and,
\* if a filter is passed, not filtered
is_variable(q, filtered) ==
    jac_in.is_var[q] /\ (filtered => ~jac_in.filter[q])

\* an analytic derivative of value v, a numeric derivative of f by q
Exact(q, v) == [q |-> q, kind |-> "exact", val |-> v]
numeric_deriv(f, q) == [q |-> q, kind |-> "numeric", val |-> 0]

Other(c) == IF c = "in1" THEN "out1" ELSE "out2"

\* the derivatives of the energy balance of the side with inlet i,
\* lines 311-317 and 370-375
SideDerivs(i) ==
    <<Exact(<<i, "m">>, jac_in.h[Other(i)] - jac_in.h[i]),
      Exact(<<i, "h">>, -jac_in.m[i]),
      Exact(<<Other(i), "h">>, jac_in.m[i])>>

\* numeric derivatives of f by p and h of the connections of the list cs
RECURSIVE PandH(_, _)
PandH(f, cs) ==
    IF Len(cs) = 0 THEN <<>>
    ELSE <<numeric_deriv(f, <<Head(cs), "p">>),
           numeric_deriv(f, <<Head(cs), "h">>)>> \o PandH(f, Tail(cs))

AllConns == <<"in1", "in2", "out1", "out2">>

\* the assignments a routine attempts, in the order of the code
Derivs(routine) ==
    CASE routine = "energy_balance_deriv" ->
             SideDerivs("in1") \o SideDerivs("in2")
      [] routine = "energy_balance_hot_deriv" -> SideDerivs("in1")
      [] routine = "kA_deriv" ->
             <<Exact(<<"in1", "m">>, jac_in.h["out1"] - jac_in.h["in1"])>>
                 \o PandH("kA_func", AllConns)
      [] routine = "kA_char_deriv" ->
             <<numeric_deriv("kA_char_func", <<"in1", "m">>),
               numeric_deriv("kA_char_func", <<"in2", "m">>)>>
                 \o PandH("kA_char_func", AllConns)
      [] routine = "ttd_u_deriv" -> PandH("ttd_u_func", <<"in1", "out2">>)
      [] routine = "ttd_l_deriv" -> PandH("ttd_l_func", <<"in2", "out1">>)

\* self.jacobian[k, var.J_col] = value for every assignment of ds, from
\* position i, whose variable passes is_variable
RECURSIVE Assign(_, _, _, _, _, _)
Assign(jac, routine, k, n, ds, i) ==
    IF i > Len(ds) THEN jac
    ELSE LET d == ds[i]
         IN Assign(
                IF is_variable(d.q, PassesFilter(routine))
                THEN [jac EXCEPT ![k][jac_in.J_col[d.q]] =
                         [by |-> routine, kind |-> d.kind, val |-> d.val,
                          at |-> n]]
                ELSE jac,
                routine, k, n, ds, i + 1)

\* routine(increment_filter, k)
deriv(routine, k) ==
    /\ jac_call.n < MaxCalls
    /\ jac_call' = [op |-> routine, k |-> k, n |-> jac_call.n + 1]
    /\ jacobian' = Assign(jacobian, routine, k, jac_call.n + 1,
                          Derivs(routine), 1)
    /\ UNCHANGED jac_in

\* an entry no routine has written
NoEntry == [by |-> "none", kind |-> "none", val |-> 0, at |-> 0]
EmptyJacobian == [k \in Rows |-> [col \in Quantities |-> NoEntry]]
NoJacCall == [op |-> "none", k |-> 0, n |-> 0]

\* every variable fixed, free or free and filtered: all alike but one
Statuses == {"fixed", "free", "filtered"}
StatusMaps ==
    {[q \in Quantities |-> IF q = q0 THEN s0 ELSE s1] :
        q0 \in Quantities, s0 \in Statuses, s1 \in Statuses}

\* values of the mass flows and enthalpies
ValueMaps ==
    {[m |-> [i \in Inlets |-> IF i = "in1" THEN a ELSE a + 1],
      h |-> [c \in Conns |-> IF c \in Inlets THEN a ELSE a + b]] :
        a \in {1, 2}, b \in {1, 3}}

\* var.J_col: every variable has a column of its own, or both sides carry
\* the same mass flow variable (inl[0].m and inl[1].m are one variable)
OwnColumns == [q \in Quantities |-> q]
SharedMassFlow ==
    [q \in Quantities |-> IF q = <<"in2", "m">> THEN <<"in1", "m">> ELSE q]
ColumnMaps == {OwnColumns, SharedMassFlow}

\* quantities that are one variable have one status and one value
JacInit ==
    /\ \E st \in StatusMaps, v \in ValueMaps, J_col \in ColumnMaps :
          jac_in = [is_var |-> [q \in Quantities |-> st[J_col[q]] # "fixed"],
                    filter |->
                        [q \in Quantities |-> st[J_col[q]] = "filtered"],
                    J_col |-> J_col,
                    m |-> [i \in Inlets |-> v.m[J_col[<<i, "m">>][1]]],
                    h |-> v.h]
    /\ jacobian = EmptyJacobian
    /\ jac_call = NoJacCall

JacIdle ==
    /\ jac_in = [is_var |-> [q \in Quantities |-> FALSE],
                 filter |-> [q \in Quantities |-> FALSE],
                 J_col |-> [q \in Quantities |-> q],
                 m |-> [i \in Inlets |-> 0], h |-> [c \in Conns |-> 0]]
    /\ jacobian = EmptyJacobian
    /\ jac_call = NoJacCall

(***************************************************************************)
(* HeatExchanger.bus_deriv                                                 *)
(***************************************************************************)
\* the columns of the variables the components on the bus depend on
BusCols == <<"col1", "col2", "col3">>
BusColSet == {BusCols[i] : i \in 1..Len(BusCols)}

\* lines 737-739: the column starts at 0 if it is not in bus.jacobian, and
\* the derivative is subtracted from it
Contribute_overwrite(jac, var) ==
    IF var.is_var
    THEN [jac EXCEPT ![var.J_col] = [present |-> TRUE, val |-> -var.d]]
    ELSE jac
Contribute(jac, var) ==
    IF var.is_var
    THEN [jac EXCEPT ![var.J_col] =
             [present |-> TRUE,
              val |-> (IF @.present THEN @.val ELSE 0) - var.d]]
    ELSE jac

\* what a component reports for the column of var
Report(rep, var) ==
    IF var.is_var
    THEN [rep EXCEPT ![var.J_col] = [n |-> @.n + 1, sum |-> @.sum + var.d]]
    ELSE rep

\* bus_deriv(bus) of a heat exchanger whose inl[0].m, inl[0].h and outl[0].h
\* are the variables m, h_i and h_o; lines 736-751
bus_deriv(m, h_i, h_o) ==
    /\ bus_calls < MaxBusCalls
    /\ bus_calls' = bus_calls + 1
    /\ bus_jacobian' =
           Contribute(Contribute(Contribute(bus_jacobian, m), h_i), h_o)
    /\ bus_reported' = Report(Report(Report(bus_reported, m), h_i), h_o)

\* the variables of a heat exchanger on the bus: J_col, is_var and the value
\* numeric_deriv returns for them
BusVars ==
    {[m |-> [J_col |-> BusCols[(j % 3) + 1], is_var |-> v[1], d |-> d],
      h_i |-> [J_col |-> BusCols[((j + 1) % 3) + 1], is_var |-> v[2],
               d |-> d + 1],
      h_o |-> [J_col |-> BusCols[((j + 2) % 3) + 1], is_var |-> v[3],
               d |-> d + 2]] :
        j \in 0..2, v \in [1..3 -> BOOLEAN], d \in {1, 2}}

BusInit ==
    /\ bus_jacobian = [col \in BusColSet |-> [present |-> FALSE, val |-> 0]]
    /\ bus_reported = [col \in BusColSet |-> [n |-> 0, sum |-> 0]]
    /\ bus_calls = 0

(***************************************************************************)
(* HeatExchanger.aux_eqs and HeatExchanger.dissipative_balance             *)
(***************************************************************************)
Kinds == {"therm", "mech", "chemical"}
\* the exergy values take the value zero and one non-zero value
ExVals == {0, 2}
\* the temperatures of the connections read by aux_eqs and the T0 passed to
\* it: every pattern of c.T.val_SI > T0 over the four connections occurs
CostTemps == {1, 2}
CostT0s == {1}

\* c.Ex_therm, c.Ex_mech or c.Ex_chemical of the connection c; the same pair
\* names the column c.Ex_C_col[k] of the cost matrix
Q(c, k) == [c |-> c, k |-> k]
\* a coefficient written without a division
NoDiv == Q("none", "none")
\* self.Z_col, the column of the component's own cost
Z_col == Q("Z", "Z")
\* exergy_cost_matrix[counter+row, col] = sign / div (sign if div is NoDiv)
W(row, col, sign, div) ==
    [row |-> row, col |-> col, sign |-> sign, div |-> div]
\* if t1 != 0 and t2 != 0: w1, elif t1 == 0 and t2 != 0: w2,
\* elif t1 != 0 and t2 == 0: w3, else: w4
FourWay(t1, t2, w1, w2, w3, w4) ==
    [tests |-> <<t1, t2>>, writes |-> <<w1, w2, w3, w4>>]
\* matrix[...] = w if t != 0 else e
Ternary(t, w, e) == [tests |-> <<t>>, writes |-> << <<w>>, <<e>> >>]

\* dissipative_balance, lines 1082-1131: the six rows of the component
dissipative_rows == <<
    \* lines 1082-1091
    FourWay(Q("in1", "therm"), Q("out1", "therm"),
        <<W(0, Q("in1", "therm"), 1, Q("in1", "therm")),
          W(0, Q("out1", "therm"), -1, Q("out1", "therm"))>>,
        <<W(0, Q("in1", "therm"), 1, NoDiv)>>,
        <<W(0, Q("out1", "therm"), 1, NoDiv)>>,
        <<W(0, Q("in1", "therm"), 1, NoDiv),
          W(0, Q("out1", "therm"), -1, NoDiv)>>),
    \* lines 1093-1102
    FourWay(Q("in2", "therm"), Q("out2", "therm"),
        <<W(1, Q("in2", "therm"), 1, Q("in1", "therm")),
          W(1, Q("out2", "therm"), -1, Q("out1", "therm"))>>,
        <<W(1, Q("in2", "therm"), 1, NoDiv)>>,
        <<W(1, Q("out2", "therm"), 1, NoDiv)>>,
        <<W(1, Q("in2", "therm"), 1, NoDiv),
          W(1, Q("out2", "therm"), -1, NoDiv)>>),
    \* lines 1104-1113
    FourWay(Q("in1", "mech"), Q("out1", "mech"),
        <<W(2, Q("in1", "mech"), 1, Q("in1", "mech")),
          W(2, Q("out1", "mech"), -1, Q("out1", "mech"))>>,
        <<W(2, Q("in1", "mech"), 1, NoDiv)>>,
        <<W(2, Q("out1", "mech"), 1, NoDiv)>>,
        <<W(2, Q("in1", "mech"), 1, NoDiv),
          W(2, Q("out1", "mech"), 1, NoDiv)>>),
    \* lines 1115-1124
    FourWay(Q("out2", "mech"), Q("out2", "mech"),
        <<W(3, Q("in2", "mech"), 1, Q("in2", "mech")),
          W(3, Q("out2", "mech"), -1, Q("out2", "mech"))>>,
        <<W(3, Q("in2", "mech"), 1, NoDiv)>>,
        <<W(3, Q("out2", "mech"), 1, NoDiv)>>,
        <<W(3, Q("in2", "mech"), 1, NoDiv),
          W(3, Q("out2", "mech"), -1, NoDiv)>>),
    \* line 1127
    Ternary(Q("in1", "chemical"),
        W(4, Q("in1", "chemical"), 1, Q("in1", "chemical")),
        W(4, Q("in1", "chemical"), 1, NoDiv)),
    \* line 1128
    Ternary(Q("out1", "chemical"),
        W(4, Q("out1", "chemical"), -1, Q("out1", "chemical")),
        W(4, Q("out1", "chemical"), -1, NoDiv)),
    \* line 1130
    Ternary(Q("out2", "chemical"),
        W(5, Q("in2", "chemical"), 1, Q("in2", "chemical")),
        W(5, Q("in2", "chemical"), 1, NoDiv)),
    \* line 1131
    Ternary(Q("out2", "chemical"),
        W(5, Q("out2", "chemical"), -1, Q("out2", "chemical")),
        W(5, Q("out2", "chemical"), -1, NoDiv)) >>

\* aux_eqs, lines 1165-1202: the rows one branch writes
aux_rows_1 == <<
    \* lines 1165-1174
    FourWay(Q("in1", "therm"), Q("out1", "therm"),
        <<W(0, Q("in1", "therm"), 1, Q("in1", "therm")),
          W(0, Q("out1", "therm"), -1, Q("out1", "therm"))>>,
        <<W(0, Q("in1", "therm"), 1, NoDiv)>>,
        <<W(0, Q("out1", "therm"), 1, NoDiv)>>,
        <<W(0, Q("in1", "therm"), 1, NoDiv),
          W(0, Q("out1", "therm"), -1, NoDiv)>>),
    \* lines 1176-1185
    FourWay(Q("in1", "mech"), Q("out1", "mech"),
        <<W(1, Q("in1", "mech"), 1, Q("in1", "mech")),
          W(1, Q("out1", "mech"), -1, Q("out1", "mech"))>>,
        <<W(1, Q("in1", "mech"), 1, NoDiv)>>,
        <<W(1, Q("out1", "mech"), 1, NoDiv)>>,
        <<W(1, Q("in1", "mech"), 1, NoDiv),
          W(1, Q("out1", "mech"), -1, NoDiv)>>),
    \* lines 1187-1196
    FourWay(Q("in2", "mech"), Q("out2", "mech"),
        <<W(2, Q("in2", "mech"), 1, Q("in2", "mech")),
          W(2, Q("out2", "mech"), -1, Q("out2", "mech"))>>,
        <<W(2, Q("in2", "mech"), 1, NoDiv)>>,
        <<W(2, Q("out2", "mech"), 1, NoDiv)>>,
        <<W(2, Q("in2", "mech"), 1, NoDiv),
          W(2, Q("out2", "mech"), -1, NoDiv)>>),
    \* line 1199
    Ternary(Q("in1", "chemical"),
        W(3, Q("in1", "chemical"), 1, Q("in1", "chemical")),
        W(3, Q("in1", "chemical"), 1, NoDiv)),
    \* line 1200
    Ternary(Q("out1", "chemical"),
        W(3, Q("out1", "chemical"), -1, Q("out1", "chemical")),
        W(3, Q("out1", "chemical"), -1, NoDiv)),
    \* line 1201
    Ternary(Q("in2", "chemical"),
        W(4, Q("in2", "chemical"), 1, Q("in2", "chemical")),
        W(4, Q("in2", "chemical"), 1, NoDiv)),
    \* line 1202
    Ternary(Q("out2", "chemical"),
        W(4, Q("out2", "chemical"), -1, Q("out2", "chemical")),
        W(4, Q("out2", "chemical"), -1, NoDiv)) >>

\* aux_eqs, lines 1206-1242: the rows one branch writes
aux_rows_2 == <<
    \* lines 1206-1215
    FourWay(Q("in2", "therm"), Q("out2", "therm"),
        <<W(0, Q("in2", "therm"), 1, Q("in2", "therm")),
          W(0, Q("out2", "therm"), -1, Q("out2", "therm"))>>,
        <<W(0, Q("in2", "therm"), 1, NoDiv)>>,
        <<W(0, Q("out2", "therm"), 1, NoDiv)>>,
        <<W(0, Q("in2", "therm"), 1, NoDiv),
          W(0, Q("out2", "therm"), -1, NoDiv)>>),
    \* lines 1217-1226
    FourWay(Q("in1", "mech"), Q("out1", "mech"),
        <<W(1, Q("in1", "mech"), 1, Q("in1", "mech")),
          W(1, Q("out1", "mech"), -1, Q("out1", "mech"))>>,
        <<W(1, Q("in1", "mech"), 1, NoDiv)>>,
        <<W(1, Q("out1", "mech"), -1, NoDiv)>>,
        <<W(1, Q("in1", "mech"), 1, NoDiv),
          W(1, Q("out1", "mech"), -1, NoDiv)>>),
    \* lines 1228-1237
    FourWay(Q("in2", "mech"), Q("out2", "mech"),
        <<W(2, Q("in2", "mech"), 1, Q("in2", "mech")),
          W(2, Q("out2", "mech"), -1, Q("out2", "mech"))>>,
        <<W(2, Q("in2", "mech"), 1, NoDiv)>>,
        <<W(2, Q("out2", "mech"), -1, NoDiv)>>,
        <<W(2, Q("in2", "mech"), 1, NoDiv),
          W(2, Q("out2", "mech"), -1, NoDiv)>>),
    \* line 1239
    Ternary(Q("in1", "chemical"),
        W(3, Q("in1", "chemical"), 1, Q("in1", "chemical")),
        W(3, Q("in1", "chemical"), 1, NoDiv)),
    \* line 1240
    Ternary(Q("out1", "chemical"),
        W(3, Q("out1", "chemical"), -1, Q("out1", "chemical")),
        W(3, Q("out1", "chemical"), -1, NoDiv)),
    \* line 1241
    Ternary(Q("in2", "chemical"),
        W(4, Q("in2", "chemical"), 1, Q("in2", "chemical")),
        W(4, Q("in2", "chemical"), 1, NoDiv)),
    \* line 1242
    Ternary(Q("out2", "chemical"),
        W(4, Q("out2", "chemical"), -1, Q("out2", "chemical")),
        W(4, Q("out2", "chemical"), -1, NoDiv)) >>

\* aux_eqs, lines 1248-1284: the rows one branch writes
aux_rows_3 == <<
    \* lines 1248-1257
    FourWay(Q("in1", "mech"), Q("out1", "mech"),
        <<W(0, Q("in1", "mech"), 1, Q("in1", "mech")),
          W(0, Q("out1", "mech"), -1, Q("out1", "mech"))>>,
        <<W(0, Q("in1", "mech"), 1, NoDiv)>>,
        <<W(0, Q("out1", "mech"), 1, NoDiv)>>,
        <<W(0, Q("in1", "mech"), 1, NoDiv),
          W(0, Q("out1", "mech"), -1, NoDiv)>>),
    \* lines 1259-1268
    FourWay(Q("in2", "mech"), Q("out2", "mech"),
        <<W(1, Q("in2", "mech"), 1, Q("in2", "mech")),
          W(1, Q("out2", "mech"), -1, Q("out2", "mech"))>>,
        <<W(1, Q("in2", "mech"), 1, NoDiv)>>,
        <<W(1, Q("out2", "mech"), 1, NoDiv)>>,
        <<W(1, Q("in2", "mech"), 1, NoDiv),
          W(1, Q("out2", "mech"), -1, NoDiv)>>),
    \* lines 1270-1279
    FourWay(Q("out1", "therm"), Q("out2", "therm"),
        <<W(4, Q("out1", "therm"), 1, Q("out1", "therm")),
          W(4, Q("out2", "therm"), -1, Q("out2", "therm"))>>,
        <<W(4, Q("out1", "therm"), 1, NoDiv)>>,
        <<W(4, Q("out2", "therm"), 1, NoDiv)>>,
        <<W(4, Q("out1", "therm"), 1, NoDiv),
          W(4, Q("out2", "therm"), -1, NoDiv)>>),
    \* line 1281
    Ternary(Q("in1", "chemical"),
        W(3, Q("in1", "chemical"), 1, Q("in1", "chemical")),
        W(3, Q("in1", "chemical"), 1, NoDiv)),
    \* line 1282
    Ternary(Q("out1", "chemical"),
        W(3, Q("out1", "chemical"), -1, Q("out1", "chemical")),
        W(3, Q("out1", "chemical"), -1, NoDiv)),
    \* line 1283
    Ternary(Q("in2", "chemical"),
        W(4, Q("in2", "chemical"), 1, Q("in2", "chemical")),
        W(4, Q("in2", "chemical"), 1, NoDiv)),
    \* line 1284
    Ternary(Q("out2", "chemical"),
        W(4, Q("out2", "chemical"), -1, Q("out2", "chemical")),
        W(4, Q("out2", "chemical"), -1, NoDiv)) >>

\* aux_eqs, lines 1290-1326: the rows one branch writes
aux_rows_4 == <<
    \* lines 1290-1299
    FourWay(Q("in2", "therm"), Q("out2", "therm"),
        <<W(0, Q("in2", "therm"), 1, Q("in2", "therm")),
          W(0, Q("out2", "therm"), -1, Q("out2", "therm"))>>,
        <<W(0, Q("in2", "therm"), 1, NoDiv)>>,
        <<W(0, Q("out2", "therm"), 1, NoDiv)>>,
        <<W(0, Q("in2", "therm"), 1, NoDiv),
          W(0, Q("out2", "therm"), -1, NoDiv)>>),
    \* lines 1301-1310
    FourWay(Q("in1", "mech"), Q("out1", "mech"),
        <<W(0, Q("in1", "mech"), 1, Q("in1", "mech")),
          W(0, Q("out1", "mech"), -1, Q("out1", "mech"))>>,
        <<W(0, Q("in1", "mech"), 1, NoDiv)>>,
        <<W(0, Q("out1", "mech"), 1, NoDiv)>>,
        <<W(0, Q("in1", "mech"), 1, NoDiv),
          W(0, Q("out1", "mech"), -1, NoDiv)>>),
    \* lines 1312-1321
    FourWay(Q("in2", "mech"), Q("out2", "mech"),
        <<W(1, Q("in2", "mech"), 1, Q("in2", "mech")),
          W(1, Q("out2", "mech"), -1, Q("out2", "mech"))>>,
        <<W(1, Q("in2", "mech"), 1, NoDiv)>>,
        <<W(1, Q("out2", "mech"), 1, NoDiv)>>,
        <<W(1, Q("in2", "mech"), 1, NoDiv),
          W(1, Q("out2", "mech"), -1, NoDiv)>>),
    \* line 1323
    Ternary(Q("in1", "chemical"),
        W(3, Q("in1", "chemical"), 1, Q("in1", "chemical")),
        W(3, Q("in1", "chemical"), 1, NoDiv)),
    \* line 1324
    Ternary(Q("out1", "chemical"),
        W(3, Q("out1", "chemical"), -1, Q("out1", "chemical")),
        W(3, Q("out1", "chemical"), -1, NoDiv)),
    \* line 1325
    Ternary(Q("in2", "chemical"),
        W(4, Q("in2", "chemical"), 1, Q("in2", "chemical")),
        W(4, Q("in2", "chemical"), 1, NoDiv)),
    \* line 1326
    Ternary(Q("out2", "chemical"),
        W(4, Q("out2", "chemical"), -1, Q("out2", "chemical")),
        W(4, Q("out2", "chemical"), -1, NoDiv)) >>

\* aux_eqs, lines 1332-1369: the rows one branch writes
aux_rows_6 == <<
    \* lines 1332-1341
    FourWay(Q("in1", "therm"), Q("out1", "therm"),
        <<W(0, Q("in1", "therm"), 1, Q("in1", "therm")),
          W(0, Q("out1", "therm"), -1, Q("out1", "therm"))>>,
        <<W(0, Q("in1", "therm"), 1, NoDiv)>>,
        <<W(0, Q("out1", "therm"), 1, NoDiv)>>,
        <<W(0, Q("in1", "therm"), 1, NoDiv),
          W(0, Q("out1", "therm"), -1, NoDiv)>>),
    \* lines 1343-1352
    FourWay(Q("in1", "mech"), Q("out1", "mech"),
        <<W(1, Q("in1", "mech"), 1, Q("in1", "mech")),
          W(1, Q("out1", "mech"), -1, Q("out1", "mech"))>>,
        <<W(1, Q("in1", "mech"), 1, NoDiv)>>,
        <<W(1, Q("out1", "mech"), 1, NoDiv)>>,
        <<W(1, Q("in1", "mech"), 1, NoDiv),
          W(1, Q("out1", "mech"), -1, NoDiv)>>),
    \* lines 1354-1363
    FourWay(Q("in2", "mech"), Q("out2", "mech"),
        <<W(2, Q("in2", "mech"), 1, Q("in2", "mech")),
          W(2, Q("out2", "mech"), -1, Q("out2", "mech"))>>,
        <<W(2, Q("in2", "mech"), 1, NoDiv)>>,
        <<W(2, Q("out2", "mech"), 1, NoDiv)>>,
        <<W(2, Q("in2", "mech"), 1, NoDiv),
          W(2, Q("out2", "mech"), -1, NoDiv)>>),
    \* line 1366
    Ternary(Q("in1", "chemical"),
        W(3, Q("in1", "chemical"), 1, Q("in1", "chemical")),
        W(3, Q("in1", "chemical"), 1, NoDiv)),
    \* line 1367
    Ternary(Q("out1", "chemical"),
        W(3, Q("out1", "chemical"), -1, Q("out1", "chemical")),
        W(3, Q("out1", "chemical"), -1, NoDiv)),
    \* line 1368
    Ternary(Q("in2", "chemical"),
        W(4, Q("in2", "chemical"), 1, Q("in2", "chemical")),
        W(4, Q("in2", "chemical"), 1, NoDiv)),
    \* line 1369
    Ternary(Q("out2", "chemical"),
        W(4, Q("out2", "chemical"), -1, Q("out2", "chemical")),
        W(4, Q("out2", "chemical"), -1, NoDiv)) >>

\* aux_eqs, lines 1379-1416: the rows one branch writes
aux_rows_else == <<
    \* lines 1379-1388
    FourWay(Q("in1", "therm"), Q("out1", "therm"),
        <<W(0, Q("in1", "therm"), 1, Q("in1", "therm")),
          W(0, Q("out1", "therm"), -1, Q("out1", "therm"))>>,
        <<W(0, Q("in1", "therm"), 1, NoDiv)>>,
        <<W(0, Q("out1", "therm"), 1, NoDiv)>>,
        <<W(0, Q("in1", "therm"), 1, NoDiv),
          W(0, Q("out1", "therm"), -1, NoDiv)>>),
    \* lines 1390-1399
    FourWay(Q("in1", "mech"), Q("out1", "mech"),
        <<W(1, Q("in1", "mech"), 1, Q("in1", "mech")),
          W(1, Q("out1", "mech"), -1, Q("out1", "mech"))>>,
        <<W(1, Q("in1", "mech"), 1, NoDiv)>>,
        <<W(1, Q("out1", "mech"), 1, NoDiv)>>,
        <<W(1, Q("in1", "mech"), 1, NoDiv),
          W(1, Q("out1", "mech"), -1, NoDiv)>>),
    \* lines 1401-1410
    FourWay(Q("in2", "mech"), Q("out2", "mech"),
        <<W(2, Q("in2", "mech"), 1, Q("in2", "mech")),
          W(2, Q("out2", "mech"), -1, Q("out2", "mech"))>>,
        <<W(2, Q("in2", "mech"), 1, NoDiv)>>,
        <<W(2, Q("out2", "mech"), 1, NoDiv)>>,
        <<W(2, Q("in2", "mech"), 1, NoDiv),
          W(2, Q("out2", "mech"), -1, NoDiv)>>),
    \* line 1413
    Ternary(Q("in1", "chemical"),
        W(3, Q("in1", "chemical"), 1, Q("in1", "chemical")),
        W(3, Q("in1", "chemical"), 1, NoDiv)),
    \* line 1414
    Ternary(Q("out1", "chemical"),
        W(3, Q("out1", "chemical"), -1, Q("out1", "chemical")),
        W(3, Q("out1", "chemical"), -1, NoDiv)),
    \* line 1415
    Ternary(Q("in2", "chemical"),
        W(4, Q("in2", "chemical"), 1, Q("in2", "chemical")),
        W(4, Q("in2", "chemical"), 1, NoDiv)),
    \* line 1416
    Ternary(Q("out2", "chemical"),
        W(4, Q("out2", "chemical"), -1, Q("out2", "chemical")),
        W(4, Q("out2", "chemical"), -1, NoDiv)) >>

ExOf(Ex, q) == Ex[q.k][q.c]

\* the assignments the block executes for the exergy values Ex
Taken(Ex, b) ==
    IF Len(b.tests) = 1
    THEN IF ExOf(Ex, b.tests[1]) # 0 THEN b.writes[1] ELSE b.writes[2]
    ELSE LET x == ExOf(Ex, b.tests[1])
             y == ExOf(Ex, b.tests[2])
         IN  IF x # 0 /\ y # 0 THEN b.writes[1]
             ELSE IF x = 0 /\ y # 0 THEN b.writes[2]
             ELSE IF x # 0 /\ y = 0 THEN b.writes[3]
             ELSE b.writes[4]

\* the assignments a list of blocks executes, in program order
RECURSIVE Statements(_, _)
Statements(Ex, blocks) ==
    IF blocks = <<>> THEN <<>>
    ELSE Taken(Ex, Head(blocks)) \o Statements(Ex, Tail(blocks))

\* the right-hand side of the assignment divides by a value that is zero
DividesByZero(Ex, w) == w.div # NoDiv /\ ExOf(Ex, w.div) = 0

\* the first assignment of ws that divides by zero (0: none does)
FirstZero(Ex, ws) ==
    LET bad == {i \in 1..Len(ws) : DividesByZero(Ex, ws[i])}
    IN  IF bad = {} THEN 0
        ELSE CHOOSE i \in bad : \A j \in bad : i <= j

\* the matrix entries after the first n assignments of ws: the last
\* assignment to a cell is the one that stays; inf marks 1 / 0.0 in numpy
Entries(Ex, ws, n) ==
    { [row |-> ws[i].row, col |-> ws[i].col, sign |-> ws[i].sign,
       div |-> ws[i].div, den |-> 1, acc |-> FALSE,
       inf |-> DividesByZero(Ex, ws[i])] :
        i \in {i \in 1..n : \A j \in (i+1)..n :
                   ws[j].row # ws[i].row \/ ws[j].col # ws[i].col} }

\* the rows the blocks write. A division by zero raises ZeroDivisionError
\* when the exergy values are Python floats, after the assignments before
\* it; when they are numpy.float64 it stores inf and the routine goes on
build_rows(Ex, blocks, float64) ==
    LET ws == Statements(Ex, blocks)
        z == FirstZero(Ex, ws)
        raised == z # 0 /\ ~float64
    IN  [matrix |-> Entries(Ex, ws, IF raised THEN z - 1 ELSE Len(ws)),
         exc |-> IF raised THEN "ZeroDivisionError" ELSE "none",
         zero_division |-> z # 0]

\* exergy_cost_vector[counter+i] = 0 for i in range(n)
ZeroVector(n) == {[row |-> i, val |-> "0"] : i \in 0..(n - 1)}

\* aux_eqs, lines 1163-1377: the rows of the branch taken
aux_eqs_rows(T, T0) ==
    IF Cond1(T, T0) THEN aux_rows_1
    ELSE IF Cond2(T, T0) THEN aux_rows_2
    ELSE IF Cond3(T, T0) THEN aux_rows_3
    ELSE IF Cond4(T, T0) THEN aux_rows_4
    ELSE IF AuxCond6(T, T0) THEN aux_rows_6
    ELSE aux_rows_else

\* self.serving_components: None, or a list of n components
NoServing == [none |-> TRUE, n |-> 0]
Serving(n) == [none |-> FALSE, n |-> n]

\* aux_eqs(exergy_cost_matrix, exergy_cost_vector, counter, T0), lines
\* 1161-1420, with counter = 0 and a matrix of zeros, for the temperatures
\* T of the connections; the branch of line 1371 prints and returns None
aux_eqs(T, T0, float64) ==
    /\ cost.calls < MaxCostCalls
    /\ cost' =
        IF aux_eqs_branch(T, T0) = 5
        THEN [op |-> "aux_eqs", branch |-> 5, matrix |-> {}, vector |-> {},
              returned |-> "None", rows |-> 0, exc |-> "none",
              zero_division |-> FALSE, calls |-> cost.calls + 1,
                  serving |-> NoServing]
        ELSE LET r == build_rows(cost_Ex, aux_eqs_rows(T, T0), float64)
                 ok == r.exc = "none"
             IN  [op |-> "aux_eqs", branch |-> aux_eqs_branch(T, T0),
                  matrix |-> r.matrix,
                  vector |-> IF ok THEN ZeroVector(5) ELSE {},
                  returned |-> IF ok THEN "list" ELSE "raised",
                  rows |-> IF ok THEN 5 ELSE 0,
                  exc |-> r.exc, zero_division |-> r.zero_division,
                  calls |-> cost.calls + 1,
                  serving |-> NoServing]
    /\ UNCHANGED cost_Ex

\* comp.exergy_cost_line of the j-th serving component: a row of another
\* component, after the seven rows of this one
exergy_cost_line(j) == 6 + j

Served_whole(n) ==
    { [row |-> exergy_cost_line(j), col |-> Q(c, k),
       sign |-> IF c \in {"in1", "in2"} THEN 1 ELSE -1,
       div |-> NoDiv, den |-> 1, acc |-> TRUE, inf |-> FALSE] :
        j \in 1..n, c \in Conns, k \in Kinds }
    \cup
    { [row |-> exergy_cost_line(j), col |-> Z_col, sign |-> 1,
       div |-> NoDiv, den |-> 1, acc |-> FALSE, inf |-> FALSE] :
        j \in 1..n }

\* lines 1139-1153: per serving component, += 1/n on the columns of the
\* inlets, += -1/n on those of the outlets, and Z_col = 1/n
Served(n) ==
    { [row |-> exergy_cost_line(j), col |-> Q(c, k),
       sign |-> IF c \in {"in1", "in2"} THEN 1 ELSE -1,
       div |-> NoDiv, den |-> n, acc |-> TRUE, inf |-> FALSE] :
        j \in 1..n, c \in Conns, k \in Kinds }
    \cup
    { [row |-> exergy_cost_line(j), col |-> Z_col, sign |-> 1,
       div |-> NoDiv, den |-> n, acc |-> FALSE, inf |-> FALSE] :
        j \in 1..n }

\* dissipative_balance(exergy_cost_matrix, exergy_cost_vector, counter, T0),
\* lines 1079-1158, with counter = 0 and a matrix of zeros; iterating over
\* None at line 1139 raises TypeError
dissipative_balance(serving_components, float64) ==
    /\ cost.calls < MaxCostCalls
    /\ cost' =
        LET r == build_rows(cost_Ex, dissipative_rows, float64)
        IN  IF r.exc # "none"
            THEN [op |-> "dissipative_balance", branch |-> 5,
                  matrix |-> r.matrix, vector |-> {},
                  returned |-> "raised", rows |-> 0, exc |-> r.exc,
                  zero_division |-> r.zero_division,
                  calls |-> cost.calls + 1,
                  serving |-> serving_components]
            ELSE IF serving_components.none
            THEN [op |-> "dissipative_balance", branch |-> 5,
                  matrix |-> r.matrix, vector |-> ZeroVector(6),
                  returned |-> "raised", rows |-> 0, exc |-> "TypeError",
                  zero_division |-> r.zero_division,
                  calls |-> cost.calls + 1,
                  serving |-> serving_components]
            ELSE [op |-> "dissipative_balance", branch |-> 5,
                  matrix |-> r.matrix \cup Served(serving_components.n)
                      \cup {[row |-> 6, col |-> Z_col, sign |-> 1,
                             div |-> NoDiv, den |-> 1, acc |-> FALSE,
                             inf |-> FALSE]},
                  vector |-> ZeroVector(6)
                      \cup {[row |-> 6, val |-> "Z_costs"]},
                  returned |-> "list", rows |-> 7, exc |-> "none",
                  zero_division |-> r.zero_division,
                  calls |-> cost.calls + 1,
                  serving |-> serving_components]
    /\ UNCHANGED cost_Ex

CostNotCalled ==
    [op |-> "none", branch |-> 0, matrix |-> {}, vector |-> {},
     returned |-> "none", rows |-> 0, exc |-> "none",
     zero_division |-> FALSE, calls |-> 0,
     serving |-> NoServing]

CostInit ==
    /\ cost_Ex \in [Kinds -> [Conns -> ExVals]]
    /\ cost = CostNotCalled

CostIdle ==
    /\ cost_Ex = [k \in Kinds |-> [c \in Conns |-> 0]]
    /\ cost = CostNotCalled

(***************************************************************************)
(* HeatExchanger.kA_char_func across design and offdesign                  *)
(***************************************************************************)
RECURSIVE GCD(_, _)
GCD(a, b) == IF b = 0 THEN a ELSE GCD(b, a % b)

\* the fraction n/d in lowest terms (n, d > 0)
Rat(n, d) == [n |-> n \div GCD(n, d), d |-> d \div GCD(n, d)]
RInv(x) == Rat(x.d, x.n)
RAdd(x, y) == Rat(x.n * y.d + y.n * x.d, x.d * y.d)
RMul(x, y) == Rat(x.n * y.n, x.d * y.d)
RDiv(x, y) == RMul(x, RInv(y))

\* the values kA_char1.char_func.evaluate and kA_char2.char_func.evaluate
\* return
CharValues == {Rat(n, d) : n \in 1..MaxChar, d \in 1..MaxChar}

\* line 508: fkA = 2 / (1 / fkA1 + 1 / fkA2)
fkA(fkA1, fkA2) == RDiv(Rat(2, 1), RAdd(RInv(fkA1), RInv(fkA2)))

\* lines 512-516: the residual m * (h_out1 - h_in1) + kA.design * fkA *
\* td_log, kept as the first term Q and the factor of td_log
kA_char_residual_val(kA, heat, fkA1, fkA2) ==
    [Q |-> heat, factor |-> RMul(Rat(kA.val, 1), fkA(fkA1, fkA2))]
kA_char_residual(kA, heat, fkA1, fkA2) ==
    [Q |-> heat, factor |-> RMul(Rat(kA.design, 1), fkA(fkA1, fkA2))]

NoResidual == [Q |-> 0, factor |-> Rat(1, 1)]
CharNotCalled ==
    [stage |-> "unconfigured", n |-> 0, called |-> FALSE, fkA1 |-> Rat(1, 1),
     fkA2 |-> Rat(1, 1), residual |-> NoResidual]

\* the design calculation: calc_parameters assigns kA.val (line 847) and
\* the design point is kept as kA.design
design_solved(v) ==
    /\ char.stage = "unconfigured"
    /\ char_kA' = [val |-> v, design |-> v]
    /\ char' = [char EXCEPT !.stage = "design-solved"]

\* an offdesign calculation: calc_parameters assigns kA.val (line 847)
offdesign_solved(v) ==
    /\ char.stage # "unconfigured"
    /\ char.n < MaxOffdesign
    /\ char_kA' = [char_kA EXCEPT !.val = v]
    /\ char' = [char EXCEPT !.stage = "offdesign-solved", !.n = @ + 1]

\* kA_char_func(), lines 502-516, in an offdesign calculation, for the
\* values of the two characteristic lines and of m * (h_out1 - h_in1)
kA_char_func(heat, fkA1, fkA2) ==
    /\ char.stage # "unconfigured"
    /\ char' = [char EXCEPT !.called = TRUE, !.fkA1 = fkA1, !.fkA2 = fkA2,
                            !.residual =
                                kA_char_residual(char_kA, heat, fkA1, fkA2)]
    /\ UNCHANGED char_kA

CharInit ==
    /\ char_kA = [val |-> 0, design |-> 0]
    /\ char = CharNotCalled

(***************************************************************************)
(* Source.exergy_balance                                                   *)
(***************************************************************************)
ExOut == 0..MaxExOut

\* the outlet connection: Ex_physical is the sum of Ex_therm and Ex_mech
Outlets ==
    {[Ex_therm |-> t, Ex_mech |-> m, Ex_physical |-> t + m, Ex_chemical |-> c]
        : t \in ExOut, m \in ExOut, c \in ExOut}

\* source.py lines 116-123: the fields exergy_balance assigns
Source_results_zeroed(outl) ==
    [called |-> TRUE, E_P |-> Num(0), E_F |-> Num(0),
     E_bus |-> [chemical |-> Num(outl.Ex_chemical),
                physical |-> Num(outl.Ex_physical),
                massless |-> Num(0)],
     E_D |-> Num(0)]
Source_results(outl) ==
    [called |-> TRUE, E_P |-> NaN, E_F |-> NaN,
     E_bus |-> [chemical |-> Num(outl.Ex_chemical),
                physical |-> Num(outl.Ex_physical),
                massless |-> Num(0)],
     E_D |-> NaN]

\* exergy_balance(T0) on the source: T0 is not read, the outlet is only read
Source_exergy_balance(T0) ==
    /\ so_T0' = T0
    /\ so' = Source_results(so_outl)
    /\ UNCHANGED so_outl

SourceInit ==
    /\ so_outl \in Outlets
    /\ so_T0 = 0
    /\ so = [called |-> FALSE, E_P |-> Unset, E_F |-> Unset,
             E_bus |-> [chemical |-> Unset, physical |-> Unset,
                        massless |-> Unset],
             E_D |-> Unset]

SourceIdle ==
    /\ so_outl = [Ex_therm |-> 0, Ex_mech |-> 0, Ex_physical |-> 0,
                  Ex_chemical |-> 0]
    /\ so_T0 = 0
    /\ so = [called |-> FALSE, E_P |-> Unset, E_F |-> Unset,
             E_bus |-> [chemical |-> Unset, physical |-> Unset,
                        massless |-> Unset],
             E_D |-> Unset]

(***************************************************************************)
(* ExergyAnalysis: __init__, analyse, evaluate_busses                      *)
(***************************************************************************)
\* the busses of the network; a bus is named by its label (b.label)
Busses == {"bus1", "bus2"}

\* the lists of busses passed as E_F, E_P, E_L or internal_busses
BusLists == {<<>>} \cup {<<b>> : b \in Busses}

NoExc == "none"

SeqToSet(q) == {q[i] : i \in 1..Len(q)}
In(b, q) == \E i \in 1..Len(q) : q[i] = b
Abs(x) == IF x < 0 THEN -x ELSE x

\* lines 288 and 293: the two checks of the constructor
InitRaises_onlyE_F(E_F, E_P) == Len(E_F) = 0
InitRaises(E_F, E_P) == Len(E_F) = 0 \/ Len(E_P) = 0

\* lines 304-306
reserved_fkt_groups_nobus(E_F, E_P, E_L, internal_busses) ==
    {"E_P", "E_F", "E_D", "E_L"}
reserved_fkt_groups(E_F, E_P, E_L, internal_busses) ==
    {"E_P", "E_F", "E_D", "E_L"}
        \cup SeqToSet(internal_busses \o E_F \o E_P \o E_L)

\* no attribute of the ExergyAnalysis has been stored
EanUnset ==
    [set |-> FALSE, E_F |-> <<>>, E_P |-> <<>>, E_L |-> <<>>,
     internal_busses |-> <<>>, reserved_fkt_groups |-> {}]

NoCall == [op |-> "none", E_F |-> <<>>, E_P |-> <<>>, E_L |-> <<>>,
           internal_busses |-> <<>>]

ZeroData == [E_F |-> 0, E_P |-> 0, E_D |-> 0, E_L |-> 0]

\* ExergyAnalysis(network, E_F, E_P, E_L, internal_busses), lines 288-308
EA_init(E_F, E_P, E_L, internal_busses) ==
    /\ ea_pc = "new"
    /\ ea_call' = [op |-> "__init__", E_F |-> E_F, E_P |-> E_P, E_L |-> E_L,
                   internal_busses |-> internal_busses]
    /\ IF InitRaises(E_F, E_P)
       THEN /\ ea_exc' = "TESPyNetworkError"
            /\ ea_log' = {IF Len(E_F) = 0 THEN "Missing fuel exergy E_F"
                          ELSE "Missing product exergy E_P"}
            /\ UNCHANGED <<ea_pc, ean>>
       ELSE /\ ea_exc' = NoExc
            /\ ea_log' = {}
            /\ ea_pc' = "ready"
            /\ ean' = [set |-> TRUE, E_F |-> E_F, E_P |-> E_P, E_L |-> E_L,
                       internal_busses |-> internal_busses,
                       reserved_fkt_groups |->
                           reserved_fkt_groups(E_F, E_P, E_L, internal_busses)]
    /\ UNCHANGED <<cp, component_data, bus_data, network_data, residual,
                   group_data, group_overview>>

\* a component without the attribute fkt_group
NoGroup == "<no fkt_group>"
\* the (unique) labels of the components of the network, in network order
PosLabel == <<"cp1", "cp2", "cp3", "cp4">>
\* the labels that can name a series of group_data or an entry of a series
GroupKeys ==
    {"E_P", "E_F", "E_D", "E_L", "grpA"} \cup Busses
        \cup {PosLabel[i] : i \in 1..Len(PosLabel)}
\* group_data with no entry: a missing entry counts 0 in every sum
ZeroGroups == [g \in GroupKeys |-> [l \in GroupKeys |-> 0]]
ZeroOutl == [Ex_therm |-> 0, Ex_mech |-> 0, Ex_physical |-> 0, Ex_chemical |-> 0]
Eta(n, d) == [n |-> n, d |-> d]
NoComp ==
    [kind |-> "none", label |-> "", assigned |-> FALSE, fkt_group |-> NoGroup,
     on |-> [b \in Busses |-> "off"], E_bus |-> 0, eta |-> Eta(1, 1),
     E_D |-> 0, outl |-> ZeroOutl]

\* a component: its class, its label, whether the user gave it a group and
\* the group, the base of its entry on each bus, E_bus, bus efficiency, E_D
Comp(k, l, g, o, x, e, d) ==
    [kind |-> k, label |-> l, assigned |-> g # NoGroup, fkt_group |-> g,
     on |-> o, E_bus |-> x, eta |-> e, E_D |-> d, outl |-> ZeroOutl]
OffAll == [b \in Busses |-> "off"]

\* components that differ in label and group, in class and bus membership
LabelFamily(n) ==
    {Comp("other", l, g, OffAll, 0, Eta(1, 1), 0) :
        l \in {PosLabel[n], "bus1"}, g \in {NoGroup, "E_L", "grpA"}}
    \cup {Comp(k, PosLabel[n], g, o, 2, Eta(1, 1), 0) :
        k \in {"source", "other"}, g \in {NoGroup},
        o \in [Busses -> {"off", "component"}]}
    \cup {Comp(k, PosLabel[n], "E_L", [b \in Busses |-> "component"], 2,
               Eta(1, 1), 0) : k \in {"source", "other"}}

\* components that differ in their exergy destruction, or in the bus they
\* are on, its base and its efficiency
ValueFamily(n) ==
    {Comp("other", PosLabel[n], NoGroup, OffAll, 0, Eta(1, 1), d) :
        d \in 0..MaxED}
    \cup {Comp("other", PosLabel[n], NoGroup, [OffAll EXCEPT ![b] = base], 2,
               e, 0) :
        b \in Busses, base \in {"bus", "component"},
        e \in {Eta(1, 1), Eta(1, 2)}}

Components(n) == LabelFamily(n) \cup ValueFamily(n)

\* exergy_balance of a component of a class other than Source: E_bus is a
\* float, as evaluate_busses reads it; the component has no product
OtherBalance(c) ==
    [E_F |-> Num(c.E_D), E_P |-> NaN, E_D |-> Num(c.E_D),
     E_bus |-> [type |-> "float", v |-> c.E_bus]]

\* line 348: cp.exergy_balance(Tamb_SI); Source.exergy_balance leaves a dict
\* in E_bus
ComponentBalance(c) ==
    IF c.kind = "source"
    THEN LET r == Source_results(c.outl)
         IN [E_F |-> r.E_F, E_P |-> r.E_P, E_D |-> r.E_D,
             E_bus |-> [type |-> "dict", v |-> 0]]
    ELSE OtherBalance(c)

\* df.loc[label] = row: the row of that label is replaced, or appended
SetRow(rows, r) ==
    IF \E i \in 1..Len(rows) : rows[i].label = r.label
    THEN [i \in 1..Len(rows) |-> IF rows[i].label = r.label THEN r ELSE rows[i]]
    ELSE Append(rows, r)

\* cp.E_bus / cp.calc_bus_efficiency(b) and cp.E_bus * cp.calc_bus_efficiency(b)
DivEta(x, eta) == (x * eta.d) \div eta.n
MulEta(x, eta) == (x * eta.n) \div eta.d

\* line 399
AnalysisBusses(a) == a.E_F \o a.E_P \o a.internal_busses \o a.E_L

\* line 401
OnMultiple_never(cnt) == FALSE
OnMultiple(cnt) == cnt > 0

\* lines 401-443: evaluate_busses at a bus b that holds the component c
VisitBus(st, c, b, res, grp) ==
    IF OnMultiple(st.cnt)
    THEN [st EXCEPT !.exc = "TESPyNetworkError",
                    !.log = {"is on multiple busses"}]
    ELSE IF res.E_bus.type = "dict"
    THEN \* lines 411-412 and 426: E_bus is a dict (source.py line 118), so
         \* dict / float and dict * float fail; "TypeError" stands for this
         \* failure, which is neither of the two errors analyse raises itself
         [st EXCEPT !.exc = "TypeError"]
    ELSE IF c.on[b] = "bus"
    THEN LET E_F == DivEta(res.E_bus.v, c.eta)
         IN [st EXCEPT
               !.bus_data = SetRow(@, [label |-> c.label, E_F |-> Num(E_F),
                                       E_P |-> Num(res.E_bus.v), E_D |-> NaN,
                                       group |-> grp]),
               !.nd = IF In(b, ean.E_F) THEN [@ EXCEPT !.E_F = @ + E_F]
                      ELSE IF In(b, ean.E_P) THEN [@ EXCEPT !.E_P = @ - E_F]
                      ELSE IF In(b, ean.E_L) THEN [@ EXCEPT !.E_L = @ - E_F]
                      ELSE @,
               !.gd = [@ EXCEPT ![b][grp] = @ + E_F],
               !.cnt = @ + 1]
    ELSE LET E_P == MulEta(res.E_bus.v, c.eta)
         IN [st EXCEPT
               !.bus_data = SetRow(@, [label |-> c.label,
                                       E_F |-> Num(res.E_bus.v),
                                       E_P |-> Num(E_P), E_D |-> NaN,
                                       group |-> grp]),
               !.nd = IF In(b, ean.E_F) THEN [@ EXCEPT !.E_F = @ - E_P]
                      ELSE IF In(b, ean.E_P) THEN [@ EXCEPT !.E_P = @ + E_P]
                      ELSE IF In(b, ean.E_L) THEN [@ EXCEPT !.E_L = @ + E_P]
                      ELSE @,
               !.gd = [@ EXCEPT ![grp][b] = @ + E_P],
               !.cnt = @ + 1]

\* lines 399-443: the loop over the busses, from list position i
RECURSIVE BusLoop(_, _, _, _, _)
BusLoop(i, st, c, res, grp) ==
    LET L == AnalysisBusses(ean)
    IN IF st.exc # NoExc \/ i > Len(L) THEN st
       ELSE BusLoop(i + 1,
                    IF c.on[L[i]] # "off" THEN VisitBus(st, c, L[i], res, grp)
                    ELSE st,
                    c, res, grp)

\* evaluate_busses(cp), lines 397-446; line 445 recomputes the column E_D
evaluate_busses(c, res, grp) ==
    LET st0 == [cnt |-> 0, bus_data |-> bus_data, nd |-> network_data,
                gd |-> group_data, exc |-> NoExc, log |-> {}]
        st == BusLoop(1, st0, c, res, grp)
        rows == st.bus_data
    IN IF st.exc # NoExc THEN st
       ELSE [st EXCEPT !.bus_data =
                [i \in 1..Len(rows) |->
                    [rows[i] EXCEPT !.E_D = Sub(rows[i].E_F, rows[i].E_P)]]]

\* the data an analyse call leaves on the ExergyAnalysis: network_data,
\* component_data, bus_data, group_data and the group_overview made of it,
\* and the exception the call ended with
AnalysisData(nd, cd, bd, gd, go, exc) ==
    [set |-> TRUE, network_data |-> nd, component_data |-> cd,
     bus_data |-> bd, group_data |-> gd, group_overview |-> go, exc |-> exc]
NoData ==
    [set |-> FALSE, network_data |-> ZeroData, component_data |-> <<>>,
     bus_data |-> <<>>, group_data |-> ZeroGroups, group_overview |-> <<>>,
     exc |-> NoExc]

analyse_start_keep ==
    /\ ean.set /\ ea_pc \in {"ready", "done", "raised"}
    /\ ea_call' = [NoCall EXCEPT !.op = "analyse"]
    /\ ea_pc' = "loop"
    /\ ea_exc' = NoExc
    /\ ea_log' = {}
    /\ cp' = NoComp
    /\ component_data' = <<>>
    /\ bus_data' = <<>>
    /\ residual' = -1
    /\ group_data' = ZeroGroups
    /\ group_overview' = <<>>
    /\ UNCHANGED <<ean, network_data>>

\* analyse, lines 326-343: reset the data
analyse_start ==
    /\ ean.set /\ ea_pc \in {"ready", "done", "raised"}
    /\ ea_call' = [NoCall EXCEPT !.op = "analyse"]
    /\ ea_pc' = "loop"
    /\ ea_exc' = NoExc
    /\ ea_log' = {}
    /\ cp' = NoComp
    /\ component_data' = <<>>
    /\ bus_data' = <<>>
    /\ network_data' = ZeroData
    /\ residual' = -1
    /\ group_data' = ZeroGroups
    /\ group_overview' = <<>>
    /\ UNCHANGED ean

\* line 354: the reserved label check
IsReserved(grp) == grp \in ean.reserved_fkt_groups

\* analyse, lines 346-364: one pass of the loop over the components
analyse_component(c) ==
    LET res == ComponentBalance(c)
        grp == IF c.fkt_group = NoGroup THEN c.label ELSE c.fkt_group
        row == [label |-> c.label, E_F |-> res.E_F, E_P |-> res.E_P,
                E_D |-> res.E_D, group |-> grp]
    IN /\ ea_pc = "loop"
       /\ Len(component_data) < MaxComps
       /\ cp' = [c EXCEPT !.fkt_group = grp]
       /\ component_data' = SetRow(component_data, row)
       /\ IF IsReserved(grp)
          THEN /\ ea_exc' = "ValueError"
               /\ ea_pc' = "raised"
               /\ UNCHANGED <<bus_data, network_data, ea_log, group_data>>
          ELSE LET st == evaluate_busses(c, res, grp)
               IN /\ ea_exc' = st.exc
                  /\ ea_pc' = IF st.exc = NoExc THEN "loop" ELSE "raised"
                  /\ ea_log' = st.log
                  /\ bus_data' = st.bus_data
                  /\ network_data' = st.nd
                  /\ group_data' = st.gd
       /\ UNCHANGED <<ea_call, ean, residual, group_overview>>

\* global_vars.py line 12: err = 1e-6, in the square of the model's unit of
\* exergy (0.5e-3), so that err ** 0.5 is 2 units
err == 4

\* df[col].sum(): nan entries are skipped
RECURSIVE SumE_D(_)
SumE_D(rows) ==
    IF Len(rows) = 0 THEN 0
    ELSE (IF isnan(Head(rows).E_D) THEN 0 ELSE Head(rows).E_D.v)
         + SumE_D(Tail(rows))

\* line 386: residual >= err ** 0.5 (residual is not negative)
NotClosed_gt(r) == r * r > err
NotClosed(r) == r * r >= err

\* the sum of f over the labels of S
RECURSIVE SumOver(_, _)
SumOver(f, S) ==
    IF S = {} THEN 0
    ELSE LET l == CHOOSE x \in S : TRUE IN f[l] + SumOver(f, S \ {l})

\* the rows of a data frame whose column group is g
RowsOfGroup(rows, g) == SelectSeq(rows, LAMBDA r : r.group = g)

\* the keys of self.group_data: lines 341-343 and 361-362
GroupDataKeys(cd) ==
    ean.reserved_fkt_groups \cup {cd[i].group : i \in 1..Len(cd)}

\* find_group_value_in_targets(group_label), lines 536-543
find_group_value_in_targets(gd, group_label) ==
    SumOver([g \in GroupKeys |-> gd[g][group_label]], GroupKeys)

\* lines 478-482: the exergy destruction of every group
GroupE_D(gd, cd, bd) ==
    [g \in GroupKeys |->
        IF g \in GroupDataKeys(cd)
        THEN [gd[g] EXCEPT !["E_D"] = SumE_D(RowsOfGroup(cd, g))
                                      + SumE_D(RowsOfGroup(bd, g))]
        ELSE gd[g]]

\* lines 485-500: the bus balances of the busses of the list L, from
\* position i; kind is "E_F", "E_P" or "E_L"
RECURSIVE BusBalance(_, _, _, _)
BusBalance(gd, L, kind, i) ==
    IF i > Len(L) THEN gd
    ELSE LET b == L[i]
             input_value == find_group_value_in_targets(gd, b)
             total == SumOver(gd[b], GroupKeys)
         IN BusBalance(
                IF kind = "E_F"
                THEN [gd EXCEPT !["E_F"][b] = total - input_value]
                ELSE [gd EXCEPT ![b][kind] = input_value - total],
                L, kind, i + 1)

\* df['group'].unique(): the groups in order of first appearance
RECURSIVE Unique(_)
Unique(rows) ==
    IF Len(rows) = 0 THEN <<>>
    ELSE LET init == Unique(SubSeq(rows, 1, Len(rows) - 1))
             g == rows[Len(rows)].group
         IN IF \E i \in 1..Len(init) : init[i] = g THEN init
            ELSE Append(init, g)

\* lines 520-528: the overview of the groups
GroupOverview(gd, cd) ==
    LET groups == Unique(cd)
    IN [i \in 1..Len(groups) |->
           LET E_F == find_group_value_in_targets(gd, groups[i])
               E_D == gd[groups[i]]["E_D"]
           IN [group |-> groups[i], E_F |-> E_F, E_D |-> E_D,
               E_P |-> E_F - E_D]]

\* create_group_data, lines 476-528, for a network whose connections stay
\* inside their group
create_group_data(gd, cd, bd) ==
    LET gd1 == GroupE_D(gd, cd, bd)
        gd2 == BusBalance(gd1, ean.E_F, "E_F", 1)
        gd3 == BusBalance(gd2, ean.E_P, "E_P", 1)
        gd4 == BusBalance(gd3, ean.E_L, "E_L", 1)
    IN [group_data |-> gd4, group_overview |-> GroupOverview(gd4, cd)]

\* lines 386-393: the closure check logs an error and raises nothing
ClosureCheck_gating(r) ==
    [exc |-> IF NotClosed(r) THEN "TESPyNetworkError" ELSE NoExc,
     log |-> IF NotClosed(r) THEN {"exergy balance is not closed"} ELSE {}]
ClosureCheck(r) ==
    [exc |-> NoExc,
     log |-> IF NotClosed(r) THEN {"exergy balance is not closed"} ELSE {}]

\* analyse, lines 366-395: the network totals, the closure check and the
\* group data
analyse_finish ==
    LET E_D == SumE_D(component_data) + SumE_D(bus_data)
        E_F == Abs(network_data.E_F)
        E_P == Abs(network_data.E_P)
        r == Abs(E_F - E_P - E_D - network_data.E_L)
        chk == ClosureCheck(r)
        grp == create_group_data(group_data, component_data, bus_data)
    IN /\ ea_pc = "loop"
       /\ network_data' = [network_data EXCEPT !.E_D = E_D, !.E_F = E_F,
                                               !.E_P = E_P]
       /\ residual' = r
       /\ ea_log' = chk.log
       /\ ea_exc' = chk.exc
       /\ IF chk.exc = NoExc
          THEN /\ ea_pc' = "done"
               /\ group_data' = grp.group_data
               /\ group_overview' = grp.group_overview
          ELSE /\ ea_pc' = "raised"
               /\ UNCHANGED <<group_data, group_overview>>
       /\ UNCHANGED <<ea_call, ean, cp, component_data, bus_data>>

EAInit ==
    /\ ea_pc = "new"
    /\ ea_call = NoCall
    /\ ea_exc = NoExc
    /\ ea_log = {}
    /\ ean = EanUnset
    /\ cp = NoComp
    /\ component_data = <<>>
    /\ bus_data = <<>>
    /\ network_data = ZeroData
    /\ residual = -1
    /\ group_data = ZeroGroups
    /\ group_overview = <<>>
    /\ ea_nw = <<>>
    /\ ea_runs = 0
    /\ ea_first = NoData

vars == <<hx_T, hx_Ex_therm, hx_Ex_mech, hx_T0, hx, so_outl, so_T0, so,
          ea_pc, ea_call, ea_exc, ea_log, ean, cp, component_data, bus_data,
          network_data, residual, group_data, group_overview, ea_nw,
          ea_runs, ea_first, td_T, td,
          hx_mh, hx_par, jac_in, jacobian, jac_call,
          bus_jacobian, bus_reported, bus_calls, cost_Ex, cost,
          char_kA, char>>

(***************************************************************************)
(* Properties of HeatExchanger.exergy_balance (checked under Spec)         *)
(***************************************************************************)
called == hx.branch # 0

\* the condition the code tests before branch i (1..5)
CondN(i, T, T0) ==
    CASE i = 1 -> Cond1(T, T0)
      [] i = 2 -> Cond2(T, T0)
      [] i = 3 -> Cond3(T, T0)
      [] i = 4 -> Cond4(T, T0)
      [] OTHER -> Cond5(T, T0)

\* C1: after every call the conditions of at most one of the five tested
\* cases hold for the state the call saw, the branch that ran is that case
\* (the else branch if none holds), and a state with all four temperatures
\* equal to T0 ran branch 2, not branch 1.
C1_ExactlyOneCase ==
    called =>
        LET sat == {i \in 1..5 : CondN(i, hx_T, hx_T0)}
        IN /\ Cardinality(sat) <= 1
           /\ (sat = {} => hx.branch = 6)
           /\ (sat # {} => hx.branch \in sat)
           /\ ((\A c \in Conns : hx_T[c] = hx_T0) => hx.branch = 2)

C1_Witness == called /\ (\A c \in Conns : hx_T[c] = hx_T0) /\ hx.branch = 2

\* C2: a call on a state with T_in1 > T0, T_out1 > T0, T_in2 <= T0 and
\* T_out2 <= T0 leaves dissipative = true, E_P = nan and E_F = the sum of
\* the physical exergy drops of both sides.
C2_DissipativeRegime ==
    (called /\ hx_T["in1"] > hx_T0 /\ hx_T["out1"] > hx_T0
            /\ hx_T["in2"] <= hx_T0 /\ hx_T["out2"] <= hx_T0) =>
        /\ hx.dissipative = TRUE
        /\ hx.E_P = NaN
        /\ hx.E_F = Num(Ex_physical(hx_Ex_therm, hx_Ex_mech, "in1")
                        - Ex_physical(hx_Ex_therm, hx_Ex_mech, "out1")
                        + Ex_physical(hx_Ex_therm, hx_Ex_mech, "in2")
                        - Ex_physical(hx_Ex_therm, hx_Ex_mech, "out2"))

C2_Witness ==
    /\ called /\ hx_T["in1"] > hx_T0 /\ hx_T["out1"] > hx_T0
    /\ hx_T["in2"] <= hx_T0 /\ hx_T["out2"] <= hx_T0
    /\ hx.dissipative /\ hx.E_F.v # 0

\* C3: the sixth (else) assignment is applied only to states with
\* T_in1, T_out1, T_out2 >= T0 and T_in2 < T0.
C3_ResidualOnlyDocumentedPattern ==
    (called /\ hx.branch = 6) =>
        /\ hx_T["in1"] >= hx_T0 /\ hx_T["out1"] >= hx_T0
        /\ hx_T["out2"] >= hx_T0 /\ hx_T["in2"] < hx_T0

\* the hot side (index 1) and the cold side (index 2) exchanged
Swap(f) == [c \in Conns |->
              CASE c = "in1" -> f["in2"] [] c = "in2" -> f["in1"]
                [] c = "out1" -> f["out2"] [] OTHER -> f["out1"]]

\* the expressions of case 1 on thermal/mechanical exergy th, me
Case1_E_P(th, me) == Num(th["out2"] - th["in2"])
Case1_E_F(th, me) ==
    Num(Ex_physical(th, me, "in1") - Ex_physical(th, me, "out1")
        + me["in2"] - me["out2"])

\* C4: with all four temperatures above T0 the call sets
\* E_P = Ex_therm(out2) - Ex_therm(in2) and
\* E_F = Ex_physical(in1) - Ex_physical(out1) + Ex_mech(in2) - Ex_mech(out2);
\* with all four at or below T0 it sets the same expressions with the
\* sides 1 and 2 exchanged.
C4_AboveAndBelowAmbient ==
    called =>
        /\ ((\A c \in Conns : hx_T[c] > hx_T0) =>
               /\ hx.E_P = Case1_E_P(hx_Ex_therm, hx_Ex_mech)
               /\ hx.E_F = Case1_E_F(hx_Ex_therm, hx_Ex_mech))
        /\ ((\A c \in Conns : hx_T[c] <= hx_T0) =>
               /\ hx.E_P = Case1_E_P(Swap(hx_Ex_therm), Swap(hx_Ex_mech))
               /\ hx.E_F = Case1_E_F(Swap(hx_Ex_therm), Swap(hx_Ex_mech)))

C4_Witness ==
    /\ called /\ (\A c \in Conns : hx_T[c] <= hx_T0)
    /\ hx_Ex_therm["in2"] = 1 /\ hx.E_F = Num(1)

\* C5: after every call E_D = E_F - E_P when E_P is a number, and
\* E_D = E_F (not nan) when E_P is nan.
C5_DestructionBalance ==
    called =>
        IF hx.E_P = NaN
        THEN hx.E_D = hx.E_F /\ hx.E_D # NaN
        ELSE hx.E_D = Num(hx.E_F.v - hx.E_P.v)

C5_Witness == called /\ hx.E_P = NaN /\ hx.E_D = hx.E_F /\ hx.E_F.v # 0

\* C19: after any sequence of exergy_balance calls, exergoeconomic_balance
\* and aux_eqs, run for the state and T0 of the last call, select the regime
\* exergy_balance selected for it.
C19_SameRegime ==
    called =>
        /\ exergoeconomic_branch(hx.dissipative, hx_T, hx_T0) = hx.branch
        /\ aux_eqs_branch(hx_T, hx_T0) = hx.branch

\* C25: after any sequence of exergy_balance calls on the same heat
\* exchanger, dissipative is true exactly when the most recent call selected
\* the dissipative regime (hot side above T0, cold side at or below T0).
C25_DissipativeFollowsLastCall ==
    called => (hx.dissipative <=> Cond5(hx_T, hx_T0))

\* C26: in each of the six regimes, with Ex_physical = Ex_therm + Ex_mech
\* on every connection, exergy_balance leaves E_D = Ex_physical(in1) +
\* Ex_physical(in2) - Ex_physical(out1) - Ex_physical(out2).
C26_DestructionRegimeIndependent ==
    called =>
        hx.E_D = Num(hx_Ex_therm["in1"] + hx_Ex_mech["in1"]
                     + hx_Ex_therm["in2"] + hx_Ex_mech["in2"]
                     - (hx_Ex_therm["out1"] + hx_Ex_mech["out1"])
                     - (hx_Ex_therm["out2"] + hx_Ex_mech["out2"]))

C26_Witness ==
    /\ called /\ hx.branch = 3
    /\ hx_Ex_therm["out2"] = 1 /\ hx.E_P = Num(1) /\ hx.E_D = Num(-1)

AtComponent == ea_call.op = "analyse" /\ cp.kind # "none"

\* the number of entries of E_F + E_P + internal_busses + E_L that hold c
NumBusses(c) ==
    LET L == ean.E_F \o ean.E_P \o ean.internal_busses \o ean.E_L
    IN Cardinality({i \in 1..Len(L) : c.on[L[i]] # "off"})

\* the group label of c, or its own label when no group was assigned
GroupLabel(c) == IF c.assigned THEN c.fkt_group ELSE c.label

\* the reserved labels: E_P, E_F, E_D, E_L and the labels of the busses
ReservedLabels ==
    {"E_P", "E_F", "E_D", "E_L"}
        \cup {b \in Busses : In(b, ean.E_F) \/ In(b, ean.E_P)
                             \/ In(b, ean.E_L) \/ In(b, ean.internal_busses)}

\* C7: when analyse evaluates the busses of a component (its label passed
\* the reserved label check), it raises TESPyNetworkError exactly if the
\* component is on more than one of the busses passed as E_F, E_P,
\* internal_busses or E_L.
C7_MultipleBussesRaise ==
    (AtComponent /\ GroupLabel(cp) \notin ReservedLabels) =>
        ((NumBusses(cp) > 1) <=> (ea_exc = "TESPyNetworkError"))

\* C8: for the component the loop of analyse is at, ValueError is raised
\* exactly if its group label, or its own label when no group was assigned,
\* is E_P, E_F, E_D, E_L or the label of a bus passed to the analysis.
C8_ReservedLabelRaises ==
    AtComponent =>
        ((ea_exc = "ValueError") <=> (GroupLabel(cp) \in ReservedLabels))

C8_Witness ==
    /\ AtComponent /\ ea_exc = "ValueError" /\ ea_pc = "raised"
    /\ ~cp.assigned /\ cp.label = "bus1"

\* C9: a constructor call with an empty E_F or an empty E_P raises
\* TESPyNetworkError and stores nothing; any other call, also with empty E_L
\* and internal_busses, returns with the lists and the reserved labels stored.
C9_ConstructorChecks ==
    ea_call.op = "__init__" =>
        IF Len(ea_call.E_F) = 0 \/ Len(ea_call.E_P) = 0
        THEN ea_exc = "TESPyNetworkError" /\ ean = EanUnset /\ ea_pc = "new"
        ELSE /\ ea_exc = NoExc /\ ea_pc = "ready" /\ ean.set
             /\ ean.E_F = ea_call.E_F /\ ean.E_P = ea_call.E_P
             /\ ean.E_L = ea_call.E_L
             /\ ean.internal_busses = ea_call.internal_busses
             /\ ean.reserved_fkt_groups = ReservedLabels

C9_Witness ==
    /\ ea_call.op = "__init__" /\ ea_exc = NoExc /\ ean.set
    /\ ea_call.E_L = <<>> /\ ea_call.internal_busses = <<>>

ClosureReported == "exergy balance is not closed" \in ea_log

ClosureChecked == ea_call.op = "analyse" /\ residual >= 0

\* C11: whether or not the closure check reports a violation, analyse raises
\* no exception, runs create_group_data, and network_data and the group
\* overview hold the values that follow from component_data and bus_data.
C11_ClosureCheckNotGating ==
    ClosureChecked =>
        /\ ea_exc = NoExc /\ ea_pc = "done"
        /\ network_data.E_D = SumE_D(component_data) + SumE_D(bus_data)
        /\ Len(group_overview) = Len(Unique(component_data))
        /\ \A i \in 1..Len(group_overview) :
              LET g == group_overview[i].group
              IN /\ g = Unique(component_data)[i]
                 /\ group_overview[i].E_D =
                        SumE_D(RowsOfGroup(component_data, g))
                        + SumE_D(RowsOfGroup(bus_data, g))
                 /\ group_overview[i].E_P =
                        group_overview[i].E_F - group_overview[i].E_D

C11_Witness ==
    /\ ClosureChecked /\ ClosureReported /\ ea_pc = "done"
    /\ \E i \in 1..Len(group_overview) : group_overview[i].E_D > 0

\* a step of the loop of analyse that deals with one more component
ComponentStep ==
    /\ ea_pc = "loop" /\ Len(component_data') > Len(component_data)

\* the totals E_F, E_P, E_L that the claimed rule yields from nd for the
\* component c on the bus b
ClaimedTotals(nd, c, b) ==
    LET viaBus == DivEta(c.E_bus, c.eta)
        viaComp == MulEta(c.E_bus, c.eta)
    IN IF In(b, ean.E_F)
       THEN [nd EXCEPT !.E_F = IF c.on[b] = "bus" THEN @ + viaBus
                               ELSE @ - viaComp]
       ELSE IF In(b, ean.E_P)
       THEN [nd EXCEPT !.E_P = IF c.on[b] = "bus" THEN @ - viaBus
                               ELSE @ + viaComp]
       ELSE IF In(b, ean.E_L)
       THEN [nd EXCEPT !.E_L = IF c.on[b] = "bus" THEN @ - viaBus
                               ELSE @ + viaComp]
       ELSE nd

\* C12: when the loop of analyse deals with a component that is on exactly
\* one bus of the analysis, evaluate_busses completes and changes the totals
\* by E_bus / eta (base 'bus') or E_bus * eta (base 'component'), added to or
\* subtracted from E_F, E_P or E_L according to the list the bus is in; on an
\* internal bus only bus_data changes.
C12_BusTotals ==
    [][ (/\ ComponentStep
         /\ GroupLabel(cp') \notin ReservedLabels
         /\ NumBusses(cp') = 1)
        => \A b \in Busses :
              (cp'.on[b] # "off" /\ In(b, AnalysisBusses(ean))) =>
                  /\ ea_exc' = NoExc
                  /\ network_data' = ClaimedTotals(network_data, cp', b)
                  /\ bus_data' # bus_data ]_vars

\* the boundary source c is assigned to one fuel, product or loss bus and
\* is on no other bus of the analysis
BoundaryAssigned(c) ==
    /\ c.kind = "source" /\ NumBusses(c) = 1
    /\ GroupLabel(c) \notin ReservedLabels
    /\ \E b \in Busses :
          /\ c.on[b] # "off"
          /\ In(b, ean.E_F) \/ In(b, ean.E_P) \/ In(b, ean.E_L)

\* C13: analyse on a network whose boundary source is assigned to a fuel,
\* product or loss bus gets past that source without an exception, and the
\* totals it ends with satisfy |E_F - E_P - E_L - E_D| <= sqrt(err).
C13_ClosureOfSpecifiedNetwork ==
    (AtComponent /\ BoundaryAssigned(cp)) =>
        /\ ea_exc = NoExc
        /\ ea_pc = "done" => residual * residual <= err

(***************************************************************************)
(* Properties of HeatExchanger.calculate_td_log (checked under SpecTD)     *)
(***************************************************************************)
\* C14: calculate_td_log returns the common value of the two terminal
\* differences (after the safeguards) when they are equal, without
\* evaluating the logarithm, and (ttd_l - ttd_u) / ln(ttd_l / ttd_u) when
\* they differ.
C14_TdLogValue ==
    td.called =>
        /\ td.ttd_u = td.T.in1 - td.T.out2
        /\ td.ttd_l = td.T.out1 - td.T.in2
        /\ IF td.ttd_u = td.ttd_l
           THEN td.td_log = Value(td.ttd_u) /\ td.log_arg = "none"
           ELSE td.td_log = LogMean(td.ttd_l, td.ttd_u) /\ td.log_arg # "none"

C14_Witness ==
    td.called /\ td.ttd_u = td.ttd_l /\ td.T = td_T /\ td.td_log.v > nudge_l

\* the temperature of connection c was changed by the safeguards
Nudged(c) == td.T[c] # td_T[c]

\* C15: for all four terminal temperatures the safeguards leave ttd_u > 0
\* and ttd_l > 0, the logarithm is only taken of a positive ratio, and a
\* changed temperature lies 0.01 K or 0.02 K from its counterpart.
C15_SafeguardsPositive ==
    td.called =>
        /\ td.ttd_u > 0 /\ td.ttd_l > 0
        /\ td.log_arg \in {"none", "ok"}
        /\ (Nudged("in1") \/ Nudged("out2")) =>
               td.T.in1 - td.T.out2 \in {nudge_u, nudge_l}
        /\ (Nudged("out1") \/ Nudged("in2")) =>
               td.T.out1 - td.T.in2 \in {nudge_u, nudge_l}

C15_Witness ==
    /\ td.called /\ td_T.in1 < td_T.out2 /\ td_T.out1 = td_T.in2
    /\ Nudged("in1") /\ Nudged("in2") /\ td.log_arg = "ok"

(***************************************************************************)
(* Properties of HeatExchanger.calc_parameters (checked under SpecPar)     *)
(***************************************************************************)
\* C16: after calc_parameters on a state whose terminal differences are
\* both positive, the residuals of energy_balance_hot_func, ttd_u_func,
\* ttd_l_func and kA_func with the stored Q, ttd_u, ttd_l and kA are zero.
C16_ResidualsZero ==
    (/\ hx_par.called
     /\ td_T.in1 - td_T.out2 > 0 /\ td_T.out1 - td_T.in2 > 0) =>
        /\ energy_balance_hot_func = 0
        /\ ttd_u_func = 0
        /\ ttd_l_func = 0
        /\ kA_func = Value(0)

C16_Witness ==
    /\ hx_par.called /\ hx_par.Q # 0
    /\ hx_par.ttd_u > 0 /\ hx_par.ttd_l > hx_par.ttd_u
    /\ hx_par.kA.den = LogMean(hx_par.ttd_l, hx_par.ttd_u)
    /\ kA_func = Value(0)

(***************************************************************************)
(* Properties of the derivative routines (checked under SpecJac)           *)
(***************************************************************************)
\* C17: a derivative routine called with row k and an increment filter
\* changes an entry of the Jacobian only in row k and only in the column of
\* a variable that is free and not excluded by the filter.
C17_WritesOnlyFreeUnfiltered ==
    [][ \A r \in Rows, col \in Quantities :
            jacobian'[r][col] # jacobian[r][col] =>
                /\ r = jac_call'.k
                /\ \E q \in Quantities :
                      /\ jac_in.J_col[q] = col
                      /\ jac_in.is_var[q] /\ ~jac_in.filter[q] ]_vars

(***************************************************************************)
(* Properties of HeatExchanger.bus_deriv (checked under SpecBus)           *)
(***************************************************************************)
\* C18: after the bus_deriv calls of any components on one bus, in any
\* order, a column is in bus.jacobian exactly if a component reported a
\* derivative for it, and its value is minus the sum of all derivatives
\* reported for it.
C18_BusJacobianAccumulates ==
    \A col \in BusColSet :
        /\ bus_jacobian[col].present <=> bus_reported[col].n > 0
        /\ bus_jacobian[col].val = -bus_reported[col].sum

C18_Witness ==
    /\ bus_calls > 1
    /\ \E col \in BusColSet :
          bus_reported[col].n > 1 /\ bus_jacobian[col].val < -2

(***************************************************************************)
(* Claim C20                                                               *)
(***************************************************************************)
\* C20: for every combination of zero and non-zero thermal, mechanical and
\* chemical exergy values of the four connections, aux_eqs and
\* dissipative_balance build their rows without dividing by zero: where a
\* value is zero the coefficient 1 or -1 is written instead, and no error
\* surfaces.
C20_NoDivisionByZero ==
    cost.op \in {"aux_eqs", "dissipative_balance"} =>
        ~cost.zero_division /\ cost.exc # "ZeroDivisionError"

(***************************************************************************)
(* Claim C21                                                               *)
(***************************************************************************)
\* the entries of the cost matrix at a row and a column
EntriesAt(row, col) == {e \in cost.matrix : e.row = row /\ e.col = col}

\* the only entry at [row, col] is the coefficient sign / den
HoldsShare(row, col, sign, den) ==
    /\ Cardinality(EntriesAt(row, col)) = 1
    /\ \A e \in EntriesAt(row, col) :
           e.sign = sign /\ e.den = den /\ e.div = NoDiv /\ ~e.inf

\* the sum over rows 1..n of the coefficients sign / den at column col,
\* times den
RECURSIVE SignSum(_, _)
SignSum(n, col) ==
    IF n = 0 THEN 0
    ELSE SignSum(n - 1, col)
         + (CHOOSE e \in EntriesAt(exergy_cost_line(n), col) : TRUE).sign

C22_NoServingIsAnError ==
    (cost.op = "dissipative_balance"
        /\ (cost.serving.none \/ cost.serving.n = 0)) =>
        (cost.returned = "raised" /\ cost.exc # "none")

(***************************************************************************)
(* Claim C23                                                               *)
(***************************************************************************)
\* energy_balance_func, lines 272-277, for mass flows m and enthalpies h
energy_balance_func(m, h) ==
    m["in1"] * (h["out1"] - h["in1"]) + m["in2"] * (h["out2"] - h["in2"])

\* the partial derivative of energy_balance_func by the variable of
\* column col: the function is linear in each variable, so the derivative
\* is the difference the function makes when the variable grows by one
PartialEnergyBalance(col) ==
    LET m1 == [i \in Inlets |->
                  IF jac_in.J_col[<<i, "m">>] = col
                  THEN jac_in.m[i] + 1 ELSE jac_in.m[i]]
        h1 == [c \in Conns |->
                  IF jac_in.J_col[<<c, "h">>] = col
                  THEN jac_in.h[c] + 1 ELSE jac_in.h[c]]
    IN  energy_balance_func(m1, h1) - energy_balance_func(jac_in.m, jac_in.h)

\* the mass flows and enthalpies of the four connections
MassFlowsAndEnthalpies ==
    {<<c, "m">> : c \in Inlets} \cup {<<c, "h">> : c \in Conns}

\* C23: after energy_balance_deriv(increment_filter, k), for every free
\* variable x among the mass flows and enthalpies of the four connections,
\* the entry at [k, column(x)] is the partial derivative of
\* energy_balance_func by x, also when two quantities are one variable.
C23_EnergyBalanceJacobian ==
    jac_call.op = "energy_balance_deriv" =>
        \A q \in MassFlowsAndEnthalpies :
            is_variable(q, TRUE) =>
                jacobian[jac_call.k][jac_in.J_col[q]].val
                    = PartialEnergyBalance(jac_in.J_col[q])

(***************************************************************************)
(* Claim C24                                                               *)
(***************************************************************************)
\* the residual kA_char_func returns for kA and the inputs of the call
\* recorded in c
ResidualOf(kA, c) == kA_char_residual(kA, c.residual.Q, c.fkA1, c.fkA2)

\* C24: kA_char_func uses kA.design scaled by f_kA = 2 / (1/f1 + 1/f2).
\* Across a design-then-offdesign sequence a later change of kA.val leaves
\* its residual as it was; the factor of td_log is kA.design * f_kA with
\* f_kA the same for (f1, f2) and (f2, f1), and f_kA = f when f1 = f2 = f.
C24_KACharUsesDesign ==
    [][char'.called =>
        /\ (char.called /\ char_kA'.val # char_kA.val) =>
               ResidualOf(char_kA', char) = char.residual
        /\ ResidualOf(char_kA', char') = char'.residual
        /\ char'.residual.factor =
               RMul(Rat(char_kA'.design, 1), fkA(char'.fkA2, char'.fkA1))
        /\ fkA(char'.fkA1, char'.fkA2) = fkA(char'.fkA2, char'.fkA1)
        /\ char'.fkA1 = char'.fkA2 =>
               fkA(char'.fkA1, char'.fkA2) = char'.fkA1]_vars

C24_Witness ==
    /\ char.called
    /\ char.stage = "offdesign-solved"
    /\ char_kA.val # char_kA.design
    /\ char.fkA1 # char.fkA2
    /\ char.residual.factor # Rat(char_kA.design, 1)

(***************************************************************************)
(* Claim C27                                                               *)
(***************************************************************************)
\* the entries aux_eqs or dissipative_balance left in row counter+row
RowEntries(row) == {e \in cost.matrix : e.row = row}

\* C27: for every temperature pattern aux_eqs writes exactly the rows
\* counter .. counter+4, every one of them with the coefficients of one
\* auxiliary equation (no row empty, no row with the entries of two
\* equations, which are of different exergy components), zeroes the five
\* vector entries and returns the counter advanced by 5.
C27_FiveAuxiliaryRows ==
    cost.op = "aux_eqs" =>
        /\ cost.returned = "list" /\ cost.rows = 5
        /\ cost.vector = ZeroVector(5)
        /\ \A e \in cost.matrix : e.row \in 0..4
        /\ \A row \in 0..4 :
               /\ RowEntries(row) # {}
               /\ Cardinality({e.col.k : e \in RowEntries(row)}) = 1
               /\ Cardinality(RowEntries(row)) <= 2

(***************************************************************************)
(* Claim C28                                                               *)
(***************************************************************************)
\* the auxiliary rows: the rows counter .. counter+5 of the component
AuxEntries == {e \in cost.matrix : e.row \in 0..5}

\* C28: in every auxiliary row of aux_eqs and dissipative_balance that
\* equates the specific cost of one exergy component between two
\* connections whose values of it are both non-zero, the coefficient in the
\* column of a connection is plus or minus the reciprocal of that same
\* connection's value of that component (the branch with the reciprocals
\* is the one taken, and no reciprocal is of another connection's value).
C28_ReciprocalOfOwnValue ==
    cost.op \in {"aux_eqs", "dissipative_balance"} =>
        /\ \A e \in AuxEntries : e.div # NoDiv => e.div = e.col
        /\ \A e \in AuxEntries, f \in AuxEntries :
               (/\ e.row = f.row /\ e.col.k = f.col.k /\ e.col # f.col
                /\ ExOf(cost_Ex, e.col) # 0 /\ ExOf(cost_Ex, f.col) # 0) =>
                   e.div = e.col /\ e.sign = -f.sign

\* C29: a second analyse call on the same ExergyAnalysis and the same
\* network leaves the same network_data, component_data, bus_data, group
\* data and exception as the first call did: nothing of the first call is
\* carried into the second
C29_SecondAnalyseSameData ==
    (ea_runs >= 2 /\ ea_pc \in {"done", "raised"})
        => ea_first = AnalysisData(network_data, component_data, bus_data,
                                   group_data, group_overview, ea_exc)

\* a second call has finished on a network with a component on a bus and
\* totals that are not zero
C29_Witness ==
    /\ ea_runs = 2 /\ ea_pc = "done"
    /\ Len(bus_data) > 0
    /\ network_data.E_P > 0 /\ network_data.E_D > 0
    /\ ea_first = AnalysisData(network_data, component_data, bus_data,
                               group_data, group_overview, ea_exc)

\* C30: calc_parameters leaves td_log NaN whenever ttd_u or ttd_l is not
\* strictly positive and otherwise the value calculate_td_log returns for the
\* same four temperatures; the logarithm is taken of a positive ratio only,
\* and neither the ratio nor kA = -Q / td_log has a zero denominator
C30_TdLogOfParameters ==
    hx_par.called =>
        /\ (hx_par.ttd_u <= 0 \/ hx_par.ttd_l <= 0)
               => hx_par.td_log = NaNValue
        /\ (hx_par.ttd_u > 0 /\ hx_par.ttd_l > 0)
               => hx_par.td_log = td_log_locals(td_T).td_log
        /\ hx_par.log_arg \in {"none", "ok"}
        /\ hx_par.kA.den # Value(0)

(***************************************************************************)
(* Specifications                                                          *)
(***************************************************************************)
Init ==
    /\ HXInit /\ SourceIdle /\ EAInit /\ TDIdle /\ ParIdle /\ JacIdle /\ BusInit
    /\ CostIdle /\ CharInit

ExergyBalance ==
    \E T0 \in Temps :
        HX_exergy_balance(T0)
            /\ UNCHANGED <<sovars, eavars, tdvars, parvars, jacvars, busvars,
                       costvars, charvars>>

Next == ExergyBalance

Spec == Init /\ [][Next]_vars

InitSource ==
    /\ SourceInit /\ HXIdle /\ EAInit /\ TDIdle /\ ParIdle /\ JacIdle /\ BusInit
    /\ CostIdle /\ CharInit

SourceExergyBalance ==
    \E T0 \in Temps :
        Source_exergy_balance(T0)
            /\ UNCHANGED <<hxvars, eavars, tdvars, parvars, jacvars, busvars,
                       costvars, charvars>>

NextSource == SourceExergyBalance

SpecSource == InitSource /\ [][NextSource]_vars

InitEA ==
    /\ EAInit /\ HXIdle /\ SourceIdle /\ TDIdle /\ ParIdle /\ JacIdle /\ BusInit
    /\ CostIdle /\ CharInit

Construct ==
    \E E_F \in BusLists, E_P \in BusLists, E_L \in BusLists,
       internal_busses \in BusLists :
        EA_init(E_F, E_P, E_L, internal_busses)
           /\ UNCHANGED <<hxvars, sovars, tdvars, parvars, jacvars, busvars,
                       costvars, charvars, nwvars>>

AnalyseStart ==
    analyse_start
        /\ UNCHANGED <<hxvars, sovars, tdvars, parvars, jacvars, busvars,
                       costvars, charvars, nwvars>>

\* the next component of the network: labels are unique within a network
AnalyseComponent ==
    \E c \in Components(Len(component_data) + 1) :
        /\ \A i \in 1..Len(component_data) : component_data[i].label # c.label
        /\ analyse_component(c)
            /\ UNCHANGED <<hxvars, sovars, tdvars, parvars, jacvars, busvars,
                       costvars, charvars, nwvars>>

AnalyseFinish ==
    analyse_finish
        /\ UNCHANGED <<hxvars, sovars, tdvars, parvars, jacvars, busvars,
                       costvars, charvars, nwvars>>

NextEA == Construct \/ AnalyseStart \/ AnalyseComponent \/ AnalyseFinish

SpecEA == InitEA /\ [][NextEA]_vars

\* analyse is called again on the same ExergyAnalysis and the same network
Analyse ==
    /\ ea_runs < MaxRuns
    /\ analyse_start
    /\ ea_runs' = ea_runs + 1
    /\ UNCHANGED <<ea_nw, ea_first>>
    /\ UNCHANGED <<hxvars, sovars, tdvars, parvars, jacvars, busvars,
                   costvars, charvars>>

\* line 346: the next component of self.nw.comps; the first call shows what
\* the network is made of, a later call iterates the same components, each
\* as the call before left it (lines 349-350 set its fkt_group)
NextOfNetwork ==
    \E c \in IF ea_runs = 1 /\ Len(component_data) < MaxNet
              THEN {x \in Components(Len(component_data) + 1) :
                       \A i \in 1..Len(component_data) :
                           component_data[i].label # x.label}
              ELSE IF ea_runs = 1 THEN {}
              ELSE IF Len(component_data) < Len(ea_nw)
              THEN {ea_nw[Len(component_data) + 1]}
              ELSE {} :
        /\ analyse_component(c)
        /\ ea_nw' = IF ea_runs = 1 THEN Append(ea_nw, cp') ELSE ea_nw
        /\ ea_first' = IF ea_runs = 1 /\ ea_pc' = "raised"
                       THEN AnalysisData(network_data', component_data',
                                         bus_data', group_data',
                                         group_overview', ea_exc')
                       ELSE ea_first
        /\ UNCHANGED ea_runs
        /\ UNCHANGED <<hxvars, sovars, tdvars, parvars, jacvars, busvars,
                       costvars, charvars>>

\* lines 366-395, after the last component of the network
FinishOfNetwork ==
    /\ ea_runs = 1 \/ Len(component_data) = Len(ea_nw)
    /\ analyse_finish
    /\ ea_first' = IF ea_runs = 1
                   THEN AnalysisData(network_data', component_data',
                                     bus_data', group_data', group_overview',
                                     ea_exc')
                   ELSE ea_first
    /\ UNCHANGED <<ea_nw, ea_runs>>
    /\ UNCHANGED <<hxvars, sovars, tdvars, parvars, jacvars, busvars,
                   costvars, charvars>>

NextRepeat == Construct \/ Analyse \/ NextOfNetwork \/ FinishOfNetwork

SpecRepeat == InitEA /\ [][NextRepeat]_vars

InitTD ==
    /\ TDInit /\ HXIdle /\ SourceIdle /\ EAInit /\ ParIdle /\ JacIdle /\ BusInit
    /\ CostIdle /\ CharInit

CalculateTdLog ==
    calculate_td_log
        /\ UNCHANGED <<hxvars, sovars, eavars, parvars, jacvars, busvars,
                       costvars, charvars>>

NextTD == CalculateTdLog

SpecTD == InitTD /\ [][NextTD]_vars

InitPar ==
    /\ ParInit /\ HXIdle /\ SourceIdle /\ EAInit /\ JacIdle /\ BusInit
    /\ CostIdle /\ CharInit

CalcParameters ==
    calc_parameters
        /\ UNCHANGED <<hxvars, sovars, eavars, jacvars, busvars, costvars,
                       charvars>>

NextPar == CalcParameters

SpecPar == InitPar /\ [][NextPar]_vars

InitJac ==
    /\ JacInit /\ HXIdle /\ SourceIdle /\ EAInit /\ TDIdle /\ ParIdle /\ BusInit
    /\ CostIdle /\ CharInit

Deriv ==
    \E routine \in Routines, k \in Rows :
        deriv(routine, k)
            /\ UNCHANGED <<hxvars, sovars, eavars, tdvars, parvars, busvars,
                           costvars, charvars>>

NextJac == Deriv

SpecJac == InitJac /\ [][NextJac]_vars

InitBus ==
    /\ BusInit /\ HXIdle /\ SourceIdle /\ EAInit /\ TDIdle /\ ParIdle /\ JacIdle
    /\ CostIdle /\ CharInit

BusDeriv ==
    \E c \in BusVars :
        bus_deriv(c.m, c.h_i, c.h_o)
            /\ UNCHANGED <<hxvars, sovars, eavars, tdvars, parvars, jacvars,
                           costvars, charvars>>

NextBus == BusDeriv

SpecBus == InitBus /\ [][NextBus]_vars

InitCost ==
    /\ CostInit /\ HXIdle /\ SourceIdle /\ EAInit /\ TDIdle /\ ParIdle
    /\ JacIdle /\ BusInit /\ CharInit

AuxEqs ==
    \E T \in [Conns -> CostTemps], T0 \in CostT0s, float64 \in BOOLEAN :
        aux_eqs(T, T0, float64)
            /\ UNCHANGED <<hxvars, sovars, eavars, tdvars, parvars, jacvars,
                           busvars, charvars>>

DissipativeBalance ==
    \E serving_components \in
           {NoServing} \cup {Serving(n) : n \in 0..MaxServing},
       float64 \in BOOLEAN :
        dissipative_balance(serving_components, float64)
            /\ UNCHANGED <<hxvars, sovars, eavars, tdvars, parvars, jacvars,
                           busvars, charvars>>

NextCost == AuxEqs \/ DissipativeBalance

SpecCost == InitCost /\ [][NextCost]_vars

InitChar ==
    /\ CharInit /\ HXIdle /\ SourceIdle /\ EAInit /\ TDIdle /\ ParIdle
    /\ JacIdle /\ BusInit /\ CostIdle

DesignSolved ==
    \E v \in 1..MaxKA :
        design_solved(v)
            /\ UNCHANGED <<hxvars, sovars, eavars, tdvars, parvars, jacvars,
                           busvars, costvars>>

OffdesignSolved ==
    \E v \in 1..MaxKA :
        offdesign_solved(v)
            /\ UNCHANGED <<hxvars, sovars, eavars, tdvars, parvars, jacvars,
                           busvars, costvars>>

KACharFunc ==
    \E heat \in {-2, -1}, fkA1 \in CharValues, fkA2 \in CharValues :
        kA_char_func(heat, fkA1, fkA2)
            /\ UNCHANGED <<hxvars, sovars, eavars, tdvars, parvars, jacvars,
                           busvars, costvars>>

NextChar == DesignSolved \/ OffdesignSolved \/ KACharFunc

SpecChar == InitChar /\ [][NextChar]_vars

=============================================================================
